---- MODULE Spec2Model ----
(***************************************************************************)
(* A model of the condition builder: ConditionBuilder                      *)
(* (src/src/builder/ConditionBuilder.ts) and FieldBuilder                  *)
(* (src/src/builder/index.ts).                                             *)
(*                                                                         *)
(* The builder owns a root group and a stack of groups (#current).  The    *)
(* stack holds references into the root tree; a reference is modelled by   *)
(* the path (sequence of child indices) from the root to the group.        *)
(***************************************************************************)
EXTENDS Integers, Sequences, FiniteSets, TLC

(***************************************************************************)
(* Bounds of the model.                                                    *)
(***************************************************************************)
\* nodes (groups and leaves) below the root group
MaxNodes == 3
\* andGroup/orGroup calls in progress at the same time
MaxDepth == 2
\* calls that change the adapter registry
MaxCalls == 3

(***************************************************************************)
(* JavaScript values.  t is the class of the value, v distinguishes the    *)
(* values of a scalar class, elems holds the elements of an array and the  *)
(* [k, val] entries (in insertion order) of a plain object.                *)
(***************************************************************************)
Undef == [t |-> "undefined", v |-> 0, elems |-> <<>>]
Null == [t |-> "null", v |-> 0, elems |-> <<>>]
Bool(b) == [t |-> "boolean", v |-> b, elems |-> <<>>]
Num(n) == [t |-> "number", v |-> n, elems |-> <<>>]
Str(n) == [t |-> "string", v |-> n, elems |-> <<>>]
Date(n) == [t |-> "date", v |-> n, elems |-> <<>>]
Arr(s) == [t |-> "array", v |-> 0, elems |-> s]
Obj(s) == [t |-> "object", v |-> 0, elems |-> s]

\* what reading a key gives when the object has no such key (undefined);
\* as the value of an item: the item has no value key
Absent == [t |-> "absent", v |-> 0, elems |-> <<>>]

\* Array.isArray(value)
IsArray(value) == value.t = "array"

(***************************************************************************)
(* Operator texts.  A text is "$" or no "$", then a name; upper says that  *)
(* some letter of the name is in upper case.  The keys "op" and "value" of *)
(* a descriptor entry are texts too.                                       *)
(***************************************************************************)
OpText(d, n, u) == [dollar |-> d, name |-> n, upper |-> u]
Tag(n) == OpText(TRUE, n, FALSE)
\* the op argument left out: where(field)
NoOp == OpText(FALSE, "", FALSE)
KeyOp == OpText(FALSE, "op", FALSE)
KeyValue == OpText(FALSE, "value", FALSE)

\* String.prototype.toLowerCase on the name
ToLower(text) == [text EXCEPT !.upper = FALSE]

\* the closed operator set
OperatorNames ==
  {"eq", "ne", "gt", "gte", "lt", "lte", "like", "ilike", "notlike",
   "in", "notin", "between", "notbetween", "isnull", "notnull"}

\* the keys of #OPERATOR_MAPPINGS
MappingNames == OperatorNames \cup {"nin"}

\* #OPERATOR_MAPPINGS: key -> FieldBuilder method
MethodOf(name) ==
  CASE name = "eq" -> "eq"
    [] name = "ne" -> "ne"
    [] name = "gt" -> "gt"
    [] name = "gte" -> "gte"
    [] name = "lt" -> "lt"
    [] name = "lte" -> "lte"
    [] name = "like" -> "like"
    [] name = "ilike" -> "ilike"
    [] name = "notlike" -> "notLike"
    [] name = "in" -> "in"
    [] name = "nin" -> "notIn"
    [] name = "notin" -> "notIn"
    [] name = "between" -> "between"
    [] name = "notbetween" -> "notBetween"
    [] name = "isnull" -> "isNull"
    [] name = "notnull" -> "isNotNull"

Methods == {MethodOf(n) : n \in MappingNames}

\* the op each FieldBuilder method passes to #createCondition ("eq" is '$eq')
MethodOpName(method) ==
  CASE method = "eq" -> "eq"
    [] method = "ne" -> "ne"
    [] method = "gt" -> "gt"
    [] method = "gte" -> "gte"
    [] method = "lt" -> "lt"
    [] method = "lte" -> "lte"
    [] method = "like" -> "like"
    [] method = "notLike" -> "notlike"
    [] method = "ilike" -> "ilike"
    [] method = "in" -> "in"
    [] method = "notIn" -> "notin"
    [] method = "between" -> "between"
    [] method = "notBetween" -> "notbetween"
    [] method = "isNull" -> "isnull"
    [] method = "isNotNull" -> "notnull"

MethodOp(method) == Tag(MethodOpName(method))

(***************************************************************************)
(* Condition nodes.  An item is {op, field, value}: value = Undef is the   *)
(* property holding undefined.  A group is {$and: [...]} or {$or: [...]}.  *)
(***************************************************************************)
Item(f, o, val) == [kind |-> "item", field |-> f, op |-> o, value |-> val]
Group(ty, ch) == [kind |-> "group", type |-> ty, children |-> ch]

\* '$and' in node || '$or' in node
IsGroup(node) == node.kind = "group"

(***************************************************************************)
(* FieldBuilder: validation of a value against its operator.               *)
(***************************************************************************)
\* #isValidSimpleValue
isValidSimpleValue(value) == value.t \in {"null", "string", "number", "boolean", "date"}

isValidComparisonValueAsSimple(value) ==
  value.t \in {"null", "string", "number", "boolean", "date"}

\* #isValidComparisonValue
isValidComparisonValue(value) == value.t \in {"string", "number", "date"}

\* #isValidRangeValue
isValidRangeValue(value) == value.t \in {"string", "number", "date"}

\* the nth element of a JavaScript array, undefined past its end
ElemAt(s, n) == IF n <= Len(s) THEN s[n] ELSE Undef

\* value.every(v => typeof v === 'string' || typeof v === 'number')
EveryStringOrNumber(s) == \A i \in 1..Len(s) : s[i].t \in {"string", "number"}

\* #validateValue: "ok", or the message of the Error it throws
validateValue(op, value) ==
  IF op \in {Tag("isnull"), Tag("notnull")}
  THEN IF value # Undef THEN "does not accept a value" ELSE "ok"
  ELSE IF value = Undef THEN "value is required"
  ELSE IF op \in {Tag("in"), Tag("notin")}
  THEN IF ~IsArray(value) \/ ~EveryStringOrNumber(value.elems)
       THEN "requires an array of strings or numbers" ELSE "ok"
  ELSE IF op \in {Tag("between"), Tag("notbetween")}
  THEN IF ~IsArray(value) THEN "requires an array with two values"
       ELSE IF \/ Len(value.elems) # 2
               \/ ~isValidRangeValue(ElemAt(value.elems, 1))
               \/ ~isValidRangeValue(ElemAt(value.elems, 2))
            THEN "requires a tuple/array of two values" ELSE "ok"
  ELSE IF op \in {Tag("like"), Tag("notlike"), Tag("ilike")}
  THEN IF value.t # "string" THEN "requires a string value" ELSE "ok"
  ELSE IF op \in {Tag("gt"), Tag("gte"), Tag("lt"), Tag("lte")}
  THEN IF ~isValidComparisonValue(value) THEN "requires a comparable value" ELSE "ok"
  ELSE IF ~isValidSimpleValue(value) THEN "requires a simple value" ELSE "ok"

(***************************************************************************)
(* Trees and references into them.                                         *)
(***************************************************************************)
RECURSIVE NodeAt(_, _)
\* the node a path from the root refers to
NodeAt(node, path) ==
  IF path = <<>> THEN node ELSE NodeAt(node.children[Head(path)], Tail(path))

RECURSIVE PushAtFront(_, _, _)
PushAtFront(node, path, child) ==
  IF path = <<>>
  THEN [node EXCEPT !.children = <<child>> \o @]
  ELSE [node EXCEPT !.children[Head(path)] = PushAtFront(@, Tail(path), child)]

RECURSIVE PushAt(_, _, _)
\* group[key].push(child) on the group a path refers to
PushAt(node, path, child) ==
  IF path = <<>>
  THEN [node EXCEPT !.children = Append(@, child)]
  ELSE [node EXCEPT !.children[Head(path)] = PushAt(@, Tail(path), child)]

RECURSIVE Size(_)
\* the number of nodes of a tree
Size(node) ==
  IF IsGroup(node)
  THEN LET RECURSIVE Sum(_)
           Sum(i) == IF i = 0 THEN 0 ELSE Size(node.children[i]) + Sum(i - 1)
       IN 1 + Sum(Len(node.children))
  ELSE 1

RECURSIVE deepCloneValue(_)
\* #deepClone on a value
deepCloneValue(obj) ==
  IF obj.t \notin {"array", "date", "object"} THEN obj
  ELSE IF obj.t = "array"
  THEN Arr([i \in 1..Len(obj.elems) |-> deepCloneValue(obj.elems[i])])
  ELSE IF obj.t = "date" THEN Date(obj.v)
  ELSE Obj([i \in 1..Len(obj.elems) |->
             IF obj.elems[i].k = KeyOp THEN obj.elems[i]
             ELSE [k |-> obj.elems[i].k, val |-> deepCloneValue(obj.elems[i].val)]])

RECURSIVE deepCloneNode(_)
\* #deepClone on a condition node
deepCloneNode(obj) ==
  IF IsGroup(obj)
  THEN Group(obj.type, [i \in 1..Len(obj.children) |-> deepCloneNode(obj.children[i])])
  ELSE Item(obj.field, obj.op, deepCloneValue(obj.value))

\* #deepClone on a descriptor: a sequence of [field, val] entries
deepCloneDescriptor(obj) ==
  [i \in 1..Len(obj) |-> [field |-> obj[i].field, val |-> deepCloneValue(obj[i].val)]]

(***************************************************************************)
(* The identity of objects.  A group, an item, an array, a date and a      *)
(* plain object are JavaScript objects: two references to one of them see  *)
(* each other's changes.  An object the caller of the builder holds        *)
(* carries the field theirs; an object of the builder's tree that is       *)
(* referred to by its place carries the field at, the path of its node     *)
(* from the root.  A record made by Item, Group, Arr, Date or Obj carries   *)
(* neither: it is a new object.                                            *)
(***************************************************************************)
RECURSIVE TheirValue(_)
\* a value the caller made: the value and every object in it is the caller's
TheirValue(obj) ==
  IF obj.t = "array"
  THEN [obj EXCEPT !.elems = [i \in 1..Len(obj.elems) |-> TheirValue(obj.elems[i])]]
         @@ [theirs |-> TRUE]
  ELSE IF obj.t \in {"date", "object"} THEN obj @@ [theirs |-> TRUE]
  ELSE obj

RECURSIVE TheirNode(_)
\* a condition node the caller made
TheirNode(node) ==
  IF IsGroup(node)
  THEN [node EXCEPT !.children = [i \in 1..Len(node.children) |-> TheirNode(node.children[i])]]
         @@ [theirs |-> TRUE]
  ELSE [node EXCEPT !.value = TheirValue(node.value)] @@ [theirs |-> TRUE]

RECURSIVE HeldValue(_, _)
\* the value of the item at path p of the builder's tree
HeldValue(obj, p) ==
  IF obj.t = "array"
  THEN [obj EXCEPT !.elems = [i \in 1..Len(obj.elems) |-> HeldValue(obj.elems[i], p)]]
         @@ [at |-> p]
  ELSE IF obj.t \in {"date", "object"} THEN obj @@ [at |-> p]
  ELSE obj

RECURSIVE Held(_, _)
\* this.#root: the node at path p of the builder's tree, as the objects
\* the builder holds
Held(node, p) ==
  IF IsGroup(node)
  THEN [node EXCEPT !.children =
          [i \in 1..Len(node.children) |-> Held(node.children[i], Append(p, i))]]
         @@ [at |-> p]
  ELSE [node EXCEPT !.value = HeldValue(node.value, p)] @@ [at |-> p]

(***************************************************************************)
(* Tree normalization at build().  #unwrapSingleCondition returns a node   *)
(* and assigns to group[key] of the groups it walks: result is the node    *)
(* returned, mutated the argument object as the call leaves it.            *)
(***************************************************************************)
RECURSIVE unwrapTopOnly(_)
unwrapTopOnly(group) ==
  IF ~IsGroup(group) THEN [result |-> group, mutated |-> group]
  ELSE IF Len(group.children) = 1
  THEN IF IsGroup(group.children[1])
       THEN LET r == unwrapTopOnly(group.children[1])
            IN [result |-> r.result,
                mutated |-> [group EXCEPT !.children = <<r.mutated>>]]
       ELSE [result |-> group.children[1], mutated |-> group]
  ELSE [result |-> group, mutated |-> group]

RECURSIVE unwrapDropsEmpty(_)
unwrapDropsEmpty(group) ==
  IF ~IsGroup(group) THEN [result |-> group, mutated |-> group]
  ELSE IF Len(group.children) = 1
  THEN IF IsGroup(group.children[1])
       THEN LET r == unwrapDropsEmpty(group.children[1])
            IN [result |-> r.result,
                mutated |-> [group EXCEPT !.children = <<r.mutated>>]]
       ELSE [result |-> group.children[1], mutated |-> group]
  ELSE IF Len(group.children) > 1
  THEN LET mapped == [i \in 1..Len(group.children) |->
                        IF IsGroup(group.children[i])
                        THEN unwrapDropsEmpty(group.children[i]).result
                        ELSE group.children[i]]
           kept == SelectSeq(mapped, LAMBDA n : ~(IsGroup(n) /\ n.children = <<>>))
           g == [group EXCEPT !.children = kept]
       IN [result |-> g, mutated |-> g]
  ELSE [result |-> group, mutated |-> group]

RECURSIVE unwrapSingleCondition(_)
unwrapSingleCondition(group) ==
  IF ~IsGroup(group) THEN [result |-> group, mutated |-> group]
  ELSE IF Len(group.children) = 1
  THEN IF IsGroup(group.children[1])
       THEN LET r == unwrapSingleCondition(group.children[1])
            IN [result |-> r.result,
                mutated |-> [group EXCEPT !.children = <<r.mutated>>]]
       ELSE [result |-> group.children[1], mutated |-> group]
  ELSE IF Len(group.children) > 1
  THEN LET mapped == [i \in 1..Len(group.children) |->
                        IF IsGroup(group.children[i])
                        THEN unwrapSingleCondition(group.children[i]).result
                        ELSE group.children[i]]
           g == [group EXCEPT !.children = mapped]
       IN [result |-> g, mutated |-> g]
  ELSE [result |-> group, mutated |-> group]

buildWithoutClone(rootGroup) ==
  LET r == unwrapSingleCondition(rootGroup)
  IN [result |-> r.result, root |-> r.mutated]

buildClonesTopOnly(rootGroup) ==
  LET held == Held(rootGroup, <<>>)
      cloned == Group(held.type, held.children)
      r == unwrapSingleCondition(cloned)
  IN [result |-> r.result, root |-> rootGroup]

buildNormalizesRoot(rootGroup) ==
  LET cloned == deepCloneNode(Held(rootGroup, <<>>))
      r == unwrapSingleCondition(cloned)
  IN [result |-> r.result, root |-> unwrapSingleCondition(rootGroup).mutated]

\* build(): the tree returned, and the root group as the call leaves it
\* (the normalization works on the clone of this.#root)
build(rootGroup) ==
  LET cloned == deepCloneNode(Held(rootGroup, <<>>))
      r == unwrapSingleCondition(cloned)
  IN [result |-> r.result, root |-> rootGroup]

(***************************************************************************)
(* The builder: b.root is #root, b.current is #current.  A handler maps a  *)
(* builder to [b, err]: the builder as the handler leaves it, and "ok" or  *)
(* the message of the Error it throws.                                     *)
(***************************************************************************)
Ok(b) == [b |-> b, err |-> "ok"]
Throw(b, msg) == [b |-> b, err |-> msg]

getCurrentGroupIsRoot(b) == b.current[1]

\* #getCurrentGroup: the reference on top of the stack
getCurrentGroup(b) == b.current[Len(b.current)]

addConditionAtFront(b, condition) ==
  [b EXCEPT !.root = PushAtFront(@, getCurrentGroup(b), deepCloneNode(condition))]

addConditionSharesNode(b, condition) ==
  [b EXCEPT !.root = PushAt(@, getCurrentGroup(b), condition)]

\* addCondition / add
addCondition(b, condition) ==
  [b EXCEPT !.root = PushAt(@, getCurrentGroup(b), deepCloneNode(condition))]

createConditionAddsFirst(b, field, op, value) ==
  LET msg == validateValue(op, value)
      added == addCondition(b, Item(field, op, value))
  IN IF msg # "ok" THEN Throw(added, msg) ELSE Ok(added)

\* FieldBuilder.#createCondition
createCondition(b, field, op, value) ==
  LET msg == validateValue(op, value)
  IN IF msg # "ok" THEN Throw(b, msg)
     ELSE Ok(addCondition(b, Item(field, op, value)))

\* a FieldBuilder method called with the arguments args: a parameter with
\* no argument is undefined, an argument with no parameter is ignored
callMethod(b, field, method, args) ==
  IF method \in {"between", "notBetween"}
  THEN createCondition(b, field, MethodOp(method), Arr(<<ElemAt(args, 1), ElemAt(args, 2)>>))
  ELSE IF method \in {"isNull", "isNotNull"}
  THEN createCondition(b, field, MethodOp(method), Undef)
  ELSE createCondition(b, field, MethodOp(method), ElemAt(args, 1))

(***************************************************************************)
(* ConditionBuilder: where(field, op, value) and where(descriptor).        *)
(***************************************************************************)
\* #getMappedOperator: the FieldBuilder method of an operator text, "none"
\* when #OPERATOR_MAPPINGS has no such key
getMappedOperator(op) ==
  LET opKey == IF op.dollar THEN op ELSE [ToLower(op) EXCEPT !.dollar = TRUE]
  IN IF ~opKey.upper /\ opKey.name \in MappingNames THEN MethodOf(opKey.name) ELSE "none"

\* #isDateOrNumberOrString
isDateOrNumberOrString(value) == value.t \in {"string", "number", "date"}

\* #isSimpleValueArray
isSimpleValueArray(elems) == EveryStringOrNumber(elems)

\* #isSimpleValue
isSimpleValue(value) == value.t \notin {"array", "object"}

\* op === '$between' || op === '$notbetween'
IsBetweenText(op) == op \in {Tag("between"), Tag("notbetween")}

handleOperatorConditionPassesValue(b, field, op, value) ==
  LET method == getMappedOperator(op)
  IN IF method = "none" THEN callMethod(b, field, "eq", <<value>>)
     ELSE callMethod(b, field, method, <<value>>)

\* #handleOperatorCondition
handleOperatorCondition(b, field, op, value) ==
  LET method == getMappedOperator(op)
      start == ElemAt(value.elems, 1)
      end == ElemAt(value.elems, 2)
  IN IF method = "none"
     THEN IF /\ IsArray(value) /\ Len(value.elems) = 2
             /\ isDateOrNumberOrString(start) /\ isDateOrNumberOrString(end)
          THEN callMethod(b, field, "between", <<start, end>>)
          ELSE IF IsArray(value) /\ isSimpleValueArray(value.elems)
          THEN callMethod(b, field, "in", <<value>>)
          ELSE callMethod(b, field, "eq", <<value>>)
     ELSE IF /\ IsBetweenText(op) /\ IsArray(value)
             /\ isDateOrNumberOrString(start) /\ isDateOrNumberOrString(end)
          THEN callMethod(b, field, method, <<start, end>>)
          ELSE callMethod(b, field, method, <<value>>)

\* where(field, op, value); where(field) when op is left out: the
\* FieldBuilder it returns is a new object, the builder is untouched
whereField(b, field, op, value) ==
  IF op = NoOp THEN Ok(b)
  ELSE handleOperatorCondition(b, field, op, deepCloneValue(value))

\* 'key' in object
HasKey(object, key) == \E i \in 1..Len(object.elems) : object.elems[i].k = key

\* object[key], undefined when the object has no such key
Get(object, key) ==
  IF HasKey(object, key)
  THEN (CHOOSE e \in {object.elems[i] : i \in 1..Len(object.elems)} : e.k = key).val
  ELSE Undef

\* #isValidOperatorKey
isValidOperatorKey(key) ==
  \/ key.dollar /\ ~key.upper /\ key.name \in MappingNames
  \/ key = KeyOp

\* #isExplicitOperator
isExplicitOperator(value) == HasKey(value, KeyOp)

handleComplexDescriptorValueUnchecked(b, key, value) ==
  IF isExplicitOperator(value)
  THEN whereField(b, key, Get(value, KeyOp), Get(value, KeyValue))
  ELSE IF Len(value.elems) = 0
  THEN Ok(b)
  ELSE IF ~isValidOperatorKey(value.elems[1].k)
  THEN Throw(b, "Invalid operator key")
  ELSE whereField(b, key, value.elems[1].k, value.elems[1].val)

\* #handleComplexDescriptorValue
handleComplexDescriptorValue(b, key, value) ==
  IF isExplicitOperator(value)
  THEN LET op == Get(value, KeyOp)
           v == Get(value, KeyValue)
           start == ElemAt(v.elems, 1)
           end == ElemAt(v.elems, 2)
       IN IF ~HasKey(value, KeyValue) \/ v = Undef
          THEN Throw(b, "Missing 'value' property")
          ELSE IF /\ IsBetweenText(op) /\ IsArray(v)
                  /\ isDateOrNumberOrString(start) /\ isDateOrNumberOrString(end)
          THEN whereField(b, key, op, Arr(<<start, end>>))
          ELSE whereField(b, key, op, v)
  ELSE IF Len(value.elems) = 0
  THEN Throw(b, "Empty object is not a valid condition")
  ELSE LET opKey == value.elems[1].k
           opValue == value.elems[1].val
           start == ElemAt(opValue.elems, 1)
           end == ElemAt(opValue.elems, 2)
       IN IF ~isValidOperatorKey(opKey)
          THEN Throw(b, "Invalid operator key")
          ELSE IF /\ IsBetweenText(opKey) /\ IsArray(opValue)
                  /\ isDateOrNumberOrString(start) /\ isDateOrNumberOrString(end)
          THEN whereField(b, key, opKey, Arr(<<start, end>>))
          ELSE whereField(b, key, opKey, opValue)

\* the body of the forEach of #handleWhereDescriptor, for one entry
handleEntry(b, key, value) ==
  IF isSimpleValue(value) THEN callMethod(b, key, "eq", <<value>>)
  ELSE IF IsArray(value) THEN callMethod(b, key, "in", <<value>>)
  ELSE handleComplexDescriptorValue(b, key, value)

RECURSIVE handleWhereDescriptorLastFirst(_, _)
handleWhereDescriptorLastFirst(b, descriptor) ==
  IF descriptor = <<>> THEN Ok(b)
  ELSE LET final == descriptor[Len(descriptor)]
           r == handleEntry(b, final.field, final.val)
       IN IF r.err # "ok" THEN r
          ELSE handleWhereDescriptorLastFirst(r.b, SubSeq(descriptor, 1, Len(descriptor) - 1))

RECURSIVE handleWhereDescriptorAtomic(_, _)
handleWhereDescriptorAtomic(b, descriptor) ==
  IF descriptor = <<>> THEN Ok(b)
  ELSE LET r == handleEntry(b, Head(descriptor).field, Head(descriptor).val)
           rest == IF r.err # "ok" THEN r
                   ELSE handleWhereDescriptorAtomic(r.b, Tail(descriptor))
       IN IF rest.err # "ok" THEN Throw(b, rest.err) ELSE rest

RECURSIVE handleWhereDescriptor(_, _)
\* #handleWhereDescriptor: the entries in order, up to the first that throws
handleWhereDescriptor(b, descriptor) ==
  IF descriptor = <<>> THEN Ok(b)
  ELSE LET r == handleEntry(b, Head(descriptor).field, Head(descriptor).val)
       IN IF r.err # "ok" THEN r ELSE handleWhereDescriptor(r.b, Tail(descriptor))

\* where(descriptor)
whereDescriptor(b, descriptor) == handleWhereDescriptor(b, deepCloneDescriptor(descriptor))

\* the constructor: from(node) passes the node, create() passes nothing
NoCondition == [kind |-> "none"]

constructorWrapsGroup(initialCondition) ==
  IF initialCondition = NoCondition THEN Group("and", <<>>)
  ELSE Group("and", <<deepCloneNode(initialCondition)>>)

constructorAsAnd(initialCondition) ==
  IF initialCondition = NoCondition THEN Group("and", <<>>)
  ELSE IF IsGroup(initialCondition)
  THEN Group("and", deepCloneNode(initialCondition).children)
  ELSE Group("and", <<deepCloneNode(initialCondition)>>)

constructor(initialCondition) ==
  IF initialCondition = NoCondition THEN Group("and", <<>>)
  ELSE IF IsGroup(initialCondition) THEN deepCloneNode(initialCondition)
  ELSE Group("and", <<deepCloneNode(initialCondition)>>)

\* new ConditionBuilder(): the empty AND root, alone on the stack
NewBuilder == [root |-> constructor(NoCondition), current |-> << <<>> >>]

\* create(descriptor)
createDescriptor(arg) == whereDescriptor(NewBuilder, deepCloneDescriptor(arg))

\* create(field, op, value); create() and create(field) return the new builder
createWhere(arg, op, value) ==
  IF op # NoOp THEN whereField(NewBuilder, arg, op, deepCloneValue(value))
  ELSE Ok(NewBuilder)

createGroupEnterOtherType(b, type) ==
  LET currentGroup == getCurrentGroup(b)
      position == Len(NodeAt(b.root, currentGroup).children) + 1
  IN [root |-> PushAt(b.root, currentGroup,
                      Group(IF type = "and" THEN "or" ELSE "and", <<>>)),
      current |-> Append(b.current, Append(currentGroup, position))]

\* #createGroup up to the call of the callback: the new group is pushed to
\* the current group and then onto the stack
createGroupEnter(b, type) ==
  LET currentGroup == getCurrentGroup(b)
      position == Len(NodeAt(b.root, currentGroup).children) + 1
  IN [root |-> PushAt(b.root, currentGroup, Group(type, <<>>)),
      current |-> Append(b.current, Append(currentGroup, position))]

createGroupExitPopsOnReturnOnly(b, threw) ==
  IF threw THEN b ELSE [b EXCEPT !.current = SubSeq(@, 1, Len(@) - 1)]

RECURSIVE ClearAt(_, _)
ClearAt(node, path) ==
  IF path = <<>> THEN [node EXCEPT !.children = <<>>]
  ELSE [node EXCEPT !.children[Head(path)] = ClearAt(@, Tail(path))]

createGroupExitRollsBack(b, threw) ==
  [root |-> IF threw THEN ClearAt(b.root, b.current[Len(b.current)]) ELSE b.root,
   current |-> SubSeq(b.current, 1, Len(b.current) - 1)]

\* #createGroup once the callback has returned or thrown: the finally block
createGroupExit(b, threw) ==
  [b EXCEPT !.current = SubSeq(@, 1, Len(@) - 1)]

(***************************************************************************)
(* The state.                                                              *)
(*   root, current  the builder (#root, #current)                          *)
(*   frames         the andGroup/orGroup calls in progress, outermost      *)
(*                  first, each with the place of the group it created     *)
(*   exc            "thrown" while an Error leaves a callback              *)
(*   last           the call just made, with its arguments and outcome     *)
(*   built          the tree the latest build() returned                   *)
(*   added          the nodes appended since the latest build()            *)
(*   log            for every group the builder opened, what was called    *)
(*                  under it, in call order                                *)
(*   initial        the node handed to from(node), NoCondition for create()*)
(*   serializers, deserializers                                            *)
(*                  the two Maps of the registry, as their entries in      *)
(*                  insertion order                                        *)
(*   calls          the calls that changed the registry, in order          *)
(*   serialized     the latest serialize call: its condition, its options  *)
(*                  and what it returned                                   *)
(***************************************************************************)
VARIABLES root, current, frames, exc, last, built, added, log, initial,
          serializers, deserializers, calls, serialized

vars == <<root, current, frames, exc, last, built, added, log, initial,
          serializers, deserializers, calls, serialized>>

\* the state of the adapters and their registry, and the state of a builder
adapters == <<serializers, deserializers, calls, serialized>>

builder == <<root, current, frames, exc, built, added, log, initial>>

NotSerialized == [kind |-> "none"]

\* no adapter is registered and none has been called
NoAdapters ==
  /\ serializers = <<>>
  /\ deserializers = <<>>
  /\ calls = <<>>
  /\ serialized = NotSerialized

B == [root |-> root, current |-> current]

Idle == [op |-> "idle", err |-> "ok"]
NotBuilt == [kind |-> "none"]

\* the group of the innermost call in progress, the root when there is none
Innermost == IF frames = <<>> THEN <<>> ELSE frames[Len(frames)].path

RECURSIVE Leaves(_)
\* the leaves of a tree, left to right
Leaves(node) ==
  IF IsGroup(node)
  THEN LET RECURSIVE Cat(_)
           Cat(i) == IF i = 0 THEN <<>> ELSE Cat(i - 1) \o Leaves(node.children[i])
       IN Cat(Len(node.children))
  ELSE <<node>>

RECURSIVE LeavesOfAll(_)
LeavesOfAll(nodes) ==
  IF nodes = <<>> THEN <<>> ELSE Leaves(Head(nodes)) \o LeavesOfAll(Tail(nodes))

\* the children the group on top of the stack of b has in b2 and not in b
Appended(b, b2) ==
  LET before == NodeAt(b.root, getCurrentGroup(b)).children
      after == NodeAt(b2.root, getCurrentGroup(b)).children
  IN SubSeq(after, Len(before) + 1, Len(after))

Given(nodes) == [i \in 1..Len(nodes) |-> [opened |-> FALSE, node |-> nodes[i]]]

\* an Error thrown inside a callback is caught there or leaves the callback
Raise(err) ==
  IF err = "ok" \/ frames = <<>> THEN exc' = "none" ELSE exc' \in {"none", "thrown"}

\* what a call that ran the handler result r leaves behind
Effect(r) ==
  /\ root' = r.b.root
  /\ current' = r.b.current
  /\ Raise(r.err)
  /\ added' = added \o Appended(B, r.b)
  /\ log' = [log EXCEPT ![Innermost].entries = @ \o Given(Appended(B, r.b))]
  /\ UNCHANGED <<frames, built, initial, adapters>>

(***************************************************************************)
(* The inputs of the calls.  Spec draws from few leaves and grows trees;   *)
(* SpecV draws from every operator and every class of value.               *)
(***************************************************************************)
Fields == {"a", "b"}

LeafA == Item("a", Tag("eq"), Num(1))
LeafB == Item("b", Tag("isnull"), Undef)

\* the nodes handed to from(node), NoCondition for create()
InitialConditions ==
  {NoCondition, LeafA, Group("or", <<LeafB>>), Group("or", <<LeafA, LeafB>>)}

\* the nodes handed to add(node)
AddNodes == {LeafB, Group("or", <<LeafA>>)}

\* where(field).<method>(...args): two that append, one that throws
FluentCalls ==
  {[field |-> "a", method |-> "eq", args |-> <<Num(1)>>],
   [field |-> "b", method |-> "isNull", args |-> <<>>],
   [field |-> "a", method |-> "gt", args |-> <<Null>>]}

\* where(field, op, value): one that appends, one that throws
WhereCalls ==
  {[field |-> "b", text |-> Tag("isnull"), value |-> Undef],
   [field |-> "a", text |-> Tag("like"), value |-> Num(1)]}

\* where(descriptor): {a: 1, b: {$isnull: undefined}} and {a: 1, b: {$gt: null}},
\* whose second entry throws
Descriptors ==
  {<<[field |-> "a", val |-> Num(1)],
     [field |-> "b", val |-> Obj(<<[k |-> Tag("isnull"), val |-> Undef]>>)]>>,
   <<[field |-> "a", val |-> Num(1)],
     [field |-> "b", val |-> Obj(<<[k |-> Tag("gt"), val |-> Null]>>)]>>}

\* one value or more of every class: undefined, null, boolean, number, string,
\* date, plain object, array of strings/numbers (of 0, 1, 2, 3 elements), array
\* with an element that is neither, two-element array with a date
Scalars == {Undef, Null, Bool(1), Num(1), Str(1), Date(1)}

Objects == {Obj(<<>>), Obj(<<[k |-> OpText(FALSE, "x", FALSE), val |-> Num(1)]>>)}

Arrays ==
  {Arr(<<>>), Arr(<<Num(1)>>), Arr(<<Num(1), Str(1)>>), Arr(<<Num(1), Str(1), Num(2)>>),
   Arr(<<Num(1), Null>>), Arr(<<Date(1), Num(2)>>), Arr(<<Bool(1)>>),
   Arr(<<Date(1), Str(1), Null>>)}

Values == Scalars \cup Objects \cup Arrays

\* the argument lists of a FieldBuilder method
ArgLists ==
  {<<>>} \cup {<<v>> : v \in Values}
         \cup {<<v, w>> : v \in Scalars \ {Bool(1)}, w \in Scalars \ {Bool(1)}}

FluentCallsV == {[field |-> "a", method |-> m, args |-> s] : m \in Methods, s \in ArgLists}

\* operator texts: the keys of the mapping as they are, some in other
\* casings and without "$", and texts that name no operator
Texts ==
  {Tag(n) : n \in MappingNames}
    \cup {OpText(d, n, u) : d \in BOOLEAN, n \in {"gt", "between", "isnull"}, u \in BOOLEAN}
    \cup {Tag("invalid"), OpText(FALSE, "invalid", FALSE)}

WhereCallsV ==
  {[field |-> "a", text |-> t, value |-> v] : t \in Texts \cup {NoOp}, v \in Values}

\* the entries of a descriptor: a value, {opKey: value}, {op, value} in
\* both orders, {op}, {op, value: undefined}
EntryValues ==
  Values
    \cup {Obj(<<[k |-> t, val |-> v]>>) : t \in Texts \cup {KeyValue}, v \in Values}
    \cup {Obj(<<[k |-> KeyOp, val |-> t], [k |-> KeyValue, val |-> v]>>) :
            t \in {Tag(n) : n \in MappingNames \cup {"invalid"}}, v \in Values}
    \cup {Obj(<<[k |-> KeyValue, val |-> Num(1)], [k |-> KeyOp, val |-> t]>>) : t \in Texts}
    \cup {Obj(<<[k |-> KeyOp, val |-> t]>>) : t \in Texts}

DescriptorsV ==
  {<<[field |-> "a", val |-> e]>> : e \in EntryValues}
    \cup {<<[field |-> "a", val |-> Num(1)], [field |-> "b", val |-> e]>> :
            e \in {Str(1), Obj(<<>>), Obj(<<[k |-> Tag("like"), val |-> Num(1)]>>),
                   Obj(<<[k |-> Tag("gt"), val |-> Num(2)]>>)}}
    \cup {<<[field |-> "a", val |-> Obj(<<[k |-> Tag("like"), val |-> Num(1)]>>)],
            [field |-> "b", val |-> Num(1)]>>}

Init ==
  /\ initial \in InitialConditions
  /\ root = constructor(initial)
  /\ current = << <<>> >>
  /\ frames = <<>>
  /\ exc = "none"
  /\ last = Idle
  /\ built = NotBuilt
  /\ added = <<>>
  /\ log = (<<>> :> [type |-> root.type, entries |-> Given(root.children)])
  /\ NoAdapters

Ready == last = Idle /\ exc = "none"

\* where(field).<method>(...args)
Fluent(field, method, args) ==
  /\ Ready
  /\ LET r == callMethod(B, field, method, args)
     IN /\ Effect(r)
        /\ last' = [op |-> "fluent", field |-> field, method |-> method,
                    args |-> args, err |-> r.err]

\* where(field, op, value)
Where(field, op, value) ==
  /\ Ready
  /\ LET r == whereField(B, field, op, value)
     IN /\ Effect(r)
        /\ last' = [op |-> "where", field |-> field, text |-> op,
                    value |-> value, err |-> r.err]

\* where(descriptor)
WhereDescriptor(descriptor) ==
  /\ Ready
  /\ LET r == whereDescriptor(B, descriptor)
     IN /\ Effect(r)
        /\ last' = [op |-> "descriptor", descriptor |-> descriptor, err |-> r.err]

\* addCondition(item)
AddCondition(condition) ==
  /\ Ready
  /\ Effect(Ok(addCondition(B, condition)))
  /\ last' = [op |-> "addCondition", node |-> condition, err |-> "ok"]

\* add(node)
Add(condition) ==
  /\ Ready
  /\ Effect(Ok(addCondition(B, condition)))
  /\ last' = [op |-> "add", node |-> condition, err |-> "ok"]

\* andGroup(callback) / orGroup(callback) up to the call of the callback
GroupEnter(type) ==
  /\ Ready
  /\ LET b == createGroupEnter(B, type)
         place == Append(Innermost, Len(log[Innermost].entries) + 1)
     IN /\ root' = b.root
        /\ current' = b.current
        /\ frames' = Append(frames, [path |-> place, type |-> type])
        /\ log' = (place :> [type |-> type, entries |-> <<>>]) @@
                  [log EXCEPT ![Innermost].entries =
                     Append(@, [opened |-> TRUE, node |-> Group(type, <<>>)])]
  /\ added' = Append(added, Group(type, <<>>))
  /\ last' = [op |-> IF type = "and" THEN "andGroup" ELSE "orGroup", err |-> "ok"]
  /\ UNCHANGED <<exc, built, initial, adapters>>

AndGroup == GroupEnter("and")

OrGroup == GroupEnter("or")

\* the callback returns: the finally block, then return this
CallbackReturn ==
  /\ Ready
  /\ frames # <<>>
  /\ LET b == createGroupExit(B, FALSE)
     IN root' = b.root /\ current' = b.current
  /\ frames' = SubSeq(frames, 1, Len(frames) - 1)
  /\ last' = [op |-> "return", err |-> "ok"]
  /\ UNCHANGED <<exc, built, added, log, initial, adapters>>

\* the callback throws an Error of its own
CallbackThrow ==
  /\ Ready
  /\ frames # <<>>
  /\ exc' = "thrown"
  /\ last' = [op |-> "throw", err |-> "callback error"]
  /\ UNCHANGED <<root, current, frames, built, added, log, initial, adapters>>

\* an Error leaves the callback of the innermost call: the finally block,
\* then the Error goes on to the caller of andGroup/orGroup, which is the
\* enclosing callback (that catches it or not) or the caller of the builder
Unwind ==
  /\ last = Idle
  /\ exc = "thrown"
  /\ frames # <<>>
  /\ LET b == createGroupExit(B, TRUE)
     IN root' = b.root /\ current' = b.current
  /\ frames' = SubSeq(frames, 1, Len(frames) - 1)
  /\ IF Len(frames) = 1 THEN exc' = "none" ELSE exc' \in {"none", "thrown"}
  /\ last' = [op |-> "unwind", err |-> "callback error"]
  /\ UNCHANGED <<built, added, log, initial, adapters>>

\* build()
Build ==
  /\ Ready
  /\ LET r == build(root)
     IN root' = r.root /\ built' = r.result
  /\ added' = <<>>
  /\ last' = [op |-> "build", err |-> "ok"]
  /\ UNCHANGED <<current, frames, exc, log, initial, adapters>>

\* the caller goes on to its next call
Forget ==
  /\ last # Idle
  /\ last' = Idle
  /\ UNCHANGED <<root, current, frames, exc, built, added, log, initial, adapters>>

\* the tree stays within bound nodes below the root, the calls within MaxDepth
Within(bound) == Size(root') <= bound + 1 /\ Len(frames') <= MaxDepth

\* no condition was added yet: the builder holds groups only
Leafless == Leaves(root) = <<>>

Next ==
  \/ \E c \in FluentCalls : Fluent(c.field, c.method, c.args) /\ Within(MaxNodes)
  \/ \E c \in WhereCalls : Where(c.field, c.text, c.value) /\ Within(MaxNodes)
  \/ \E d \in Descriptors : WhereDescriptor(d) /\ Within(MaxNodes)
  \/ \E n \in {LeafA} : AddCondition(n) /\ Within(MaxNodes)
  \/ \E n \in AddNodes : Add(n) /\ Within(MaxNodes)
  \/ AndGroup /\ Within(MaxNodes)
  \/ OrGroup /\ Within(MaxNodes)
  \/ CallbackReturn
  \/ CallbackThrow
  \/ Unwind
  \/ Build
  \/ Forget

Spec == Init /\ [][Next]_vars

InitV ==
  /\ initial = NoCondition
  /\ root = constructor(initial)
  /\ current = << <<>> >>
  /\ frames = <<>>
  /\ exc = "none"
  /\ last = Idle
  /\ built = NotBuilt
  /\ added = <<>>
  /\ log = (<<>> :> [type |-> root.type, entries |-> <<>>])
  /\ NoAdapters

\* every operator with every class of value, as the first condition of a
\* builder, at the root and inside the callbacks of up to MaxDepth calls
NextV ==
  \/ Leafless /\ \E c \in FluentCallsV : Fluent(c.field, c.method, c.args)
  \/ Leafless /\ \E c \in WhereCallsV : Where(c.field, c.text, c.value)
  \/ Leafless /\ \E d \in DescriptorsV : WhereDescriptor(d)
  \/ OrGroup /\ Within(MaxDepth)
  \/ CallbackReturn
  \/ Unwind
  \/ Forget

SpecV == InitV /\ [][NextV]_vars

(***************************************************************************)
(* The caller and its objects.  SpecA hands the builder objects the caller *)
(* holds and lets the caller change them, and the trees build() returned,  *)
(* afterwards.  A change of an object reaches the builder's tree exactly   *)
(* when the tree refers to that object.                                    *)
(***************************************************************************)
Other(type) == IF type = "and" THEN "or" ELSE "and"

\* the change the caller makes to an array, a date or a plain object
Wiped(obj) == IF obj.t = "date" THEN [obj EXCEPT !.v = 0] ELSE [obj EXCEPT !.elems = <<>>]

RECURSIVE ChangeTheirValue(_)
\* a value after the caller has changed every object it holds
ChangeTheirValue(obj) ==
  IF obj.t \notin {"array", "date", "object"} THEN obj
  ELSE IF "theirs" \in DOMAIN obj THEN Wiped(obj)
  ELSE IF obj.t = "array"
  THEN [obj EXCEPT !.elems = [i \in 1..Len(obj.elems) |-> ChangeTheirValue(obj.elems[i])]]
  ELSE obj

RECURSIVE ChangeTheirs(_)
\* a tree after the caller has changed every object it holds: the
\* combinator of a group, the field of an item, the content of a value
ChangeTheirs(node) ==
  IF IsGroup(node)
  THEN [node EXCEPT
          !.children = [i \in 1..Len(node.children) |-> ChangeTheirs(node.children[i])],
          !.type = IF "theirs" \in DOMAIN node THEN Other(@) ELSE @]
  ELSE [node EXCEPT
          !.value = ChangeTheirValue(@),
          !.field = IF "theirs" \in DOMAIN node THEN "z" ELSE @]

RECURSIVE ValuePlaces(_)
\* the places of the builder's value objects a value refers to
ValuePlaces(obj) ==
  (IF "at" \in DOMAIN obj THEN {obj.at} ELSE {})
    \cup (IF obj.t = "array"
          THEN UNION {ValuePlaces(obj.elems[i]) : i \in 1..Len(obj.elems)}
          ELSE {})

RECURSIVE SharedNodes(_)
\* the places of the builder's groups and items a tree refers to
SharedNodes(tree) ==
  (IF "at" \in DOMAIN tree THEN {tree.at} ELSE {})
    \cup (IF IsGroup(tree)
          THEN UNION {SharedNodes(tree.children[i]) : i \in 1..Len(tree.children)}
          ELSE {})

RECURSIVE SharedValues(_)
\* the places of the items whose value objects a tree refers to
SharedValues(tree) ==
  IF IsGroup(tree)
  THEN UNION {SharedValues(tree.children[i]) : i \in 1..Len(tree.children)}
  ELSE ValuePlaces(tree.value)

RECURSIVE ChangeAt(_, _, _, _)
\* the builder's tree after the caller has changed the objects at the
\* places nodes and the values of the items at the places values
ChangeAt(node, p, nodes, values) ==
  IF IsGroup(node)
  THEN [node EXCEPT
          !.children = [i \in 1..Len(node.children) |->
                          ChangeAt(node.children[i], Append(p, i), nodes, values)],
          !.type = IF p \in nodes THEN Other(@) ELSE @]
  ELSE [node EXCEPT
          !.value = IF p \in values THEN Wiped(@) ELSE @,
          !.field = IF p \in nodes THEN "z" ELSE @]

\* the caller changes the objects it handed to the builder
CallerMutates ==
  /\ Ready
  /\ root' = ChangeTheirs(root)
  /\ last' = [op |-> "mutate", err |-> "ok"]
  /\ UNCHANGED <<current, frames, exc, built, added, log, initial, adapters>>

\* the caller changes every object of the tree the latest build() returned,
\* and lets go of the tree
MutateBuilt ==
  /\ Ready
  /\ built # NotBuilt
  /\ root' = ChangeAt(root, <<>>, SharedNodes(built), SharedValues(built))
  /\ built' = NotBuilt
  /\ last' = [op |-> "mutateBuilt", err |-> "ok"]
  /\ UNCHANGED <<current, frames, exc, added, log, initial, adapters>>

\* the caller's objects: an array, a date, a range, an item, a group
TheirArray == TheirValue(Arr(<<Num(1), Str(1)>>))
TheirDate == TheirValue(Date(1))
TheirRange == TheirValue(Arr(<<Date(1), Num(2)>>))
TheirItem == TheirNode(Item("a", Tag("in"), Arr(<<Num(1), Str(1)>>)))
TheirGroup ==
  TheirNode(Group("or", <<Item("a", Tag("between"), Arr(<<Date(1), Num(2)>>)),
                          Item("b", Tag("isnull"), Undef)>>))

FluentCallsA ==
  {[field |-> "a", method |-> "in", args |-> <<TheirArray>>],
   [field |-> "b", method |-> "between", args |-> <<TheirDate, Num(2)>>]}

WhereCallsA ==
  {[field |-> "a", text |-> Tag("between"), value |-> TheirRange],
   [field |-> "b", text |-> Tag("gt"), value |-> TheirDate]}

\* {a: array, b: {$gt: date}} and {a: {op: '$between', value: range}}
DescriptorsA ==
  {<<[field |-> "a", val |-> TheirArray],
     [field |-> "b", val |-> TheirValue(Obj(<<[k |-> Tag("gt"), val |-> TheirDate]>>))]>>,
   <<[field |-> "a",
      val |-> TheirValue(Obj(<<[k |-> KeyOp, val |-> Tag("between")],
                               [k |-> KeyValue, val |-> TheirRange]>>))]>>}

\* from(node), create(), create(descriptor), create(field, op, value)
InitA ==
  /\ \/ initial \in {TheirItem, TheirGroup, NoCondition} /\ root = constructor(initial)
     \/ /\ initial = NoCondition
        /\ \/ \E d \in DescriptorsA : root = createDescriptor(d).b.root
           \/ \E c \in WhereCallsA : root = createWhere(c.field, c.text, c.value).b.root
  /\ current = << <<>> >>
  /\ frames = <<>>
  /\ exc = "none"
  /\ last = Idle
  /\ built = NotBuilt
  /\ added = <<>>
  /\ log = (<<>> :> [type |-> root.type, entries |-> Given(root.children)])
  /\ NoAdapters

NextA ==
  \/ \E c \in FluentCallsA : Fluent(c.field, c.method, c.args) /\ Within(MaxNodes)
  \/ \E c \in WhereCallsA : Where(c.field, c.text, c.value) /\ Within(MaxNodes)
  \/ \E d \in DescriptorsA : WhereDescriptor(d) /\ Within(MaxNodes)
  \/ AddCondition(TheirItem) /\ Within(MaxNodes)
  \/ Add(TheirGroup) /\ Within(MaxNodes)
  \/ OrGroup /\ Within(MaxNodes)
  \/ CallbackReturn
  \/ Build
  \/ CallerMutates
  \/ MutateBuilt
  \/ Forget

SpecA == InitA /\ [][NextA]_vars

(***************************************************************************)
(* The adapter registry.  A Map is the sequence of its [key, val] entries  *)
(* in insertion order; an adapter is named by a string, NoAdapter is       *)
(* undefined: the argument left out, the key a plugin does not have.       *)
(***************************************************************************)
NoAdapter == "undefined"

\* Map.has, Map.get, Map.set, Map.delete, Map.keys
MapHas(m, key) == \E i \in 1..Len(m) : m[i].key = key

MapGet(m, key) ==
  IF MapHas(m, key) THEN m[CHOOSE i \in 1..Len(m) : m[i].key = key].val ELSE NoAdapter

MapSet(m, key, val) ==
  IF MapHas(m, key)
  THEN [i \in 1..Len(m) |-> IF m[i].key = key THEN [key |-> key, val |-> val] ELSE m[i]]
  ELSE Append(m, [key |-> key, val |-> val])

MapDelete(m, key) == SelectSeq(m, LAMBDA e : e.key # key)

MapKeys(m) == [i \in 1..Len(m) |-> m[i].key]

RECURSIVE SetOrder(_)
\* Array.from(new Set(keys)): every key once, at the place it first has
SetOrder(keys) ==
  IF keys = <<>> THEN <<>>
  ELSE LET front == SetOrder(SubSeq(keys, 1, Len(keys) - 1))
           key == keys[Len(keys)]
       IN IF \E i \in 1..Len(front) : front[i] = key THEN front ELSE Append(front, key)

registerUnguarded(reg, type, serializer, deserializer) ==
  [serializers |-> MapSet(reg.serializers, type, serializer),
   deserializers |-> MapSet(reg.deserializers, type, deserializer)]

\* register(type, serializer?, deserializer?)
register(reg, type, serializer, deserializer) ==
  [serializers |-> IF serializer # NoAdapter
                   THEN MapSet(reg.serializers, type, serializer)
                   ELSE reg.serializers,
   deserializers |-> IF deserializer # NoAdapter
                     THEN MapSet(reg.deserializers, type, deserializer)
                     ELSE reg.deserializers]

\* registerPlugin(plugin)
registerPlugin(reg, plugin) ==
  [serializers |-> IF plugin.serializer # NoAdapter
                   THEN MapSet(reg.serializers, plugin.type, plugin.serializer)
                   ELSE reg.serializers,
   deserializers |-> IF plugin.deserializer # NoAdapter
                     THEN MapSet(reg.deserializers, plugin.type, plugin.deserializer)
                     ELSE reg.deserializers]

\* unregister(type)
unregister(reg, type) ==
  [serializers |-> MapDelete(reg.serializers, type),
   deserializers |-> MapDelete(reg.deserializers, type)]

\* clear()
clear(reg) == [serializers |-> <<>>, deserializers |-> <<>>]

\* the Error of a lookup: `${kind} '${type}' not registered`
NotRegistered(kind, type) ==
  [result |-> NoAdapter, err |-> "not registered", kind |-> kind, type |-> type]

Found(adapter, type) == [result |-> adapter, err |-> "ok", kind |-> "", type |-> type]

getSerializerReturnsUndefined(reg, type) == Found(MapGet(reg.serializers, type), type)

\* getSerializer(type)
getSerializer(reg, type) ==
  LET serializer == MapGet(reg.serializers, type)
  IN IF serializer = NoAdapter THEN NotRegistered("Serializer", type)
     ELSE Found(serializer, type)

\* getDeserializer(type)
getDeserializer(reg, type) ==
  LET deserializer == MapGet(reg.deserializers, type)
  IN IF deserializer = NoAdapter THEN NotRegistered("Deserializer", type)
     ELSE Found(deserializer, type)

hasSerializer(reg, type) == MapHas(reg.serializers, type)

hasDeserializer(reg, type) == MapHas(reg.deserializers, type)

getRegisteredTypes(reg) == SetOrder(MapKeys(reg.serializers) \o MapKeys(reg.deserializers))

\* the registry
R == [serializers |-> serializers, deserializers |-> deserializers]

\* the inputs: two types, two serializers and a deserializer
AdapterTypes == {"knex", "kendo"}

RegisterArguments ==
  {[type |-> t, serializer |-> a[1], deserializer |-> a[2]] :
     t \in AdapterTypes,
     a \in {<<"knexAdapter", NoAdapter>>, <<NoAdapter, "kendoAdapter">>,
            <<"mikroOrmAdapter", "kendoAdapter">>, <<NoAdapter, NoAdapter>>}}

Plugins ==
  {[type |-> "knex", serializer |-> "mikroOrmAdapter", deserializer |-> NoAdapter],
   [type |-> "kendo", serializer |-> "knexAdapter", deserializer |-> "kendoAdapter"]}

\* a call that changes the registry, as calls keeps it
Call(op, type, serializer, deserializer) ==
  [op |-> op, type |-> type, serializer |-> serializer, deserializer |-> deserializer]

Changed(reg, call) ==
  /\ Len(calls) < MaxCalls
  /\ serializers' = reg.serializers
  /\ deserializers' = reg.deserializers
  /\ calls' = Append(calls, call)
  /\ last' = [op |-> call.op, err |-> "ok"]
  /\ UNCHANGED <<builder, serialized>>

Asked(answer) ==
  /\ last' = answer
  /\ UNCHANGED <<builder, adapters>>

Register(type, serializer, deserializer) ==
  /\ Ready
  /\ Changed(register(R, type, serializer, deserializer),
             Call("register", type, serializer, deserializer))

RegisterPlugin(plugin) ==
  /\ Ready
  /\ Changed(registerPlugin(R, plugin),
             Call("registerPlugin", plugin.type, plugin.serializer, plugin.deserializer))

Unregister(type) ==
  /\ Ready
  /\ Changed(unregister(R, type), Call("unregister", type, NoAdapter, NoAdapter))

Clear ==
  /\ Ready
  /\ Changed(clear(R), Call("clear", "", NoAdapter, NoAdapter))

GetSerializer(type) ==
  /\ Ready
  /\ Asked([op |-> "getSerializer", asked |-> type] @@ getSerializer(R, type))

GetDeserializer(type) ==
  /\ Ready
  /\ Asked([op |-> "getDeserializer", asked |-> type] @@ getDeserializer(R, type))

HasSerializer(type) ==
  /\ Ready
  /\ Asked([op |-> "hasSerializer", type |-> type, err |-> "ok",
            result |-> hasSerializer(R, type)])

HasDeserializer(type) ==
  /\ Ready
  /\ Asked([op |-> "hasDeserializer", type |-> type, err |-> "ok",
            result |-> hasDeserializer(R, type)])

GetRegisteredTypes ==
  /\ Ready
  /\ Asked([op |-> "getRegisteredTypes", err |-> "ok", result |-> getRegisteredTypes(R)])

\* the registry as its constructor leaves it, next to a new builder
InitR == InitV

NextR ==
  \/ \E a \in RegisterArguments : Register(a.type, a.serializer, a.deserializer)
  \/ \E plugin \in Plugins : RegisterPlugin(plugin)
  \/ \E type \in AdapterTypes : Unregister(type)
  \/ Clear
  \/ \E type \in AdapterTypes : GetSerializer(type)
  \/ \E type \in AdapterTypes : GetDeserializer(type)
  \/ \E type \in AdapterTypes : HasSerializer(type)
  \/ \E type \in AdapterTypes : HasDeserializer(type)
  \/ GetRegisteredTypes
  \/ Forget

SpecR == InitR /\ [][NextR]_vars

(***************************************************************************)
(* The Kendo filter adapter.  A Kendo filter is an item {field, operator,  *)
(* value} or a group {logic, filters}; an operator is a text, as the       *)
(* operators of the builder are, without "$".                              *)
(***************************************************************************)
KendoItem(f, o, val) == [kind |-> "item", field |-> f, operator |-> o, value |-> val]
KendoGroup(lo, fs) == [kind |-> "group", logic |-> lo, filters |-> fs]

KendoOp(n) == OpText(FALSE, n, FALSE)

\* 'logic' in filter && 'filters' in filter
isCompositeFilter(filter) == filter.kind = "group"

RECURSIVE TextOf(_)
\* `${value}`, as a number that tells the texts apart: the text of a string
\* is the string, the text of an array is the texts of its elements joined
\* by commas
TextOf(value) ==
  CASE value.t = "string" -> value.v
    [] value.t = "number" -> 10 + value.v
    [] value.t = "null" -> 20
    [] value.t = "undefined" -> 21
    [] value.t = "boolean" -> 22 + value.v
    [] value.t = "array" ->
         IF value.elems = <<>> THEN 0
         ELSE IF Len(value.elems) = 1 THEN TextOf(value.elems[1])
         ELSE 30 + Len(value.elems)
    [] OTHER -> 40

\* `%${value}%`, `${value}%`, `%${value}`: a string, told apart by the
\* percent signs it has and the text between them
Pattern(before, value, after) ==
  Str(100 * (1 + (IF before THEN 2 ELSE 0) + (IF after THEN 1 ELSE 0)) + TextOf(value))

EmptyString == Str(0)

Converted(node) == [node |-> node, err |-> "ok"]

\* convertSimpleFilter
convertSimpleFilter(filter) ==
  LET field == filter.field
      value == filter.value
      operator == ToLower(filter.operator).name
  IN CASE operator = "eq" ->
            IF value = Null THEN Converted(Item(field, Tag("isnull"), Absent))
            ELSE Converted(Item(field, Tag("eq"), value))
       [] operator = "neq" ->
            IF value = Null THEN Converted(Item(field, Tag("notnull"), Absent))
            ELSE Converted(Item(field, Tag("ne"), value))
       [] operator \in {"gt", "gte", "lt", "lte", "in"} ->
            Converted(Item(field, Tag(operator), value))
       [] operator = "contains" ->
            Converted(Item(field, Tag("ilike"), Pattern(TRUE, value, TRUE)))
       [] operator = "doesnotcontain" ->
            Converted(Item(field, Tag("notlike"), Pattern(TRUE, value, TRUE)))
       [] operator = "startswith" ->
            Converted(Item(field, Tag("ilike"), Pattern(FALSE, value, TRUE)))
       [] operator = "endswith" ->
            Converted(Item(field, Tag("ilike"), Pattern(TRUE, value, FALSE)))
       [] operator = "doesnotstartwith" ->
            Converted(Item(field, Tag("notlike"), Pattern(FALSE, value, TRUE)))
       [] operator = "doesnotendwith" ->
            Converted(Item(field, Tag("notlike"), Pattern(TRUE, value, FALSE)))
       [] operator = "isnull" -> Converted(Item(field, Tag("isnull"), Absent))
       [] operator = "isnotnull" -> Converted(Item(field, Tag("notnull"), Absent))
       [] operator = "isempty" -> Converted(Item(field, Tag("eq"), EmptyString))
       [] operator = "isnotempty" -> Converted(Item(field, Tag("ne"), EmptyString))
       [] operator = "isnullorempty" ->
            Converted(Group("or", <<Item(field, Tag("isnull"), Absent),
                                    Item(field, Tag("eq"), EmptyString)>>))
       [] operator = "isnotnullorempty" ->
            Converted(Group("and", <<Item(field, Tag("notnull"), Absent),
                                     Item(field, Tag("ne"), EmptyString)>>))
       [] OTHER -> [node |-> NoCondition, err |-> "Unsupported Kendo operator"]

RECURSIVE convertCompositeFilter(_)
\* convertCompositeFilter: the filters in order, up to the first that throws
convertCompositeFilter(filter) ==
  LET each == [i \in 1..Len(filter.filters) |->
                 IF isCompositeFilter(filter.filters[i])
                 THEN convertCompositeFilter(filter.filters[i])
                 ELSE convertSimpleFilter(filter.filters[i])]
      thrown == {i \in 1..Len(each) : each[i].err # "ok"}
      conditions == [i \in 1..Len(each) |-> each[i].node]
  IN IF thrown # {}
     THEN each[CHOOSE i \in thrown : \A j \in thrown : i <= j]
     ELSE IF filter.logic = "and" THEN Converted(Group("and", conditions))
     ELSE Converted(Group("or", conditions))

deserializeAndsTheFilter(filter) ==
  LET r == IF isCompositeFilter(filter) THEN convertCompositeFilter(filter)
           ELSE convertSimpleFilter(filter)
  IN IF r.err # "ok" THEN [b |-> NewBuilder, node |-> r.node, err |-> r.err]
     ELSE [b |-> [root |-> constructorWrapsGroup(r.node), current |-> << <<>> >>],
           node |-> r.node, err |-> "ok"]

\* deserialize(filter): ConditionBuilder.from(result), or the Error of the
\* conversion
deserialize(filter) ==
  LET r == IF isCompositeFilter(filter) THEN convertCompositeFilter(filter)
           ELSE convertSimpleFilter(filter)
  IN IF r.err # "ok" THEN [b |-> NewBuilder, node |-> r.node, err |-> r.err]
     ELSE [b |-> [root |-> constructor(r.node), current |-> << <<>> >>],
           node |-> r.node, err |-> "ok"]

\* the operators of Kendo, one in capitals, one that Kendo does not have
KendoOperators ==
  {KendoOp(n) : n \in {"eq", "neq", "lt", "lte", "gt", "gte", "startswith", "endswith",
                       "contains", "doesnotcontain", "doesnotstartwith", "doesnotendwith",
                       "isempty", "isnotempty", "isnull", "isnotnull", "isnullorempty",
                       "isnotnullorempty", "in", "unsupported"}}
    \cup {OpText(FALSE, "eq", TRUE)}

KendoValues == {Null, Str(1)}

\* the filters: every operator with null and with a string, 'gt' with a
\* number, 'in' with an array, the groups of the tests and of the README,
\* of both logics, one empty, one with a filter that throws
KendoFilters ==
  {KendoItem("b", o, v) : o \in KendoOperators, v \in KendoValues}
    \cup {KendoItem("b", KendoOp("gt"), Num(1)),
          KendoItem("b", KendoOp("in"), Arr(<<Num(1), Str(1)>>))}
    \cup {KendoGroup(lo, <<KendoItem("a", KendoOp("eq"), Str(1)),
                           KendoItem("b", KendoOp("lt"), Num(1))>>) : lo \in {"and", "or"}}
    \cup {KendoGroup("and", <<KendoItem("a", KendoOp("eq"), Str(1)),
                              KendoGroup("or", <<KendoItem("b", KendoOp("lt"), Num(1)),
                                                 KendoItem("b", KendoOp("eq"), Bool(1))>>)>>),
          KendoGroup("or", <<KendoGroup("and", <<KendoItem("b", KendoOp("isnull"), Null)>>)>>),
          KendoGroup("or", <<>>),
          KendoGroup("and", <<KendoItem("a", KendoOp("eq"), Str(1)),
                              KendoItem("b", KendoOp("unsupported"), Num(1))>>)}

\* the calls made on the builder a deserialize returned: where calls that
\* append and where calls that throw, nodes given to add and addCondition
\* that no where call would make
FluentCallsK ==
  {[field |-> "a", method |-> "eq", args |-> <<Num(1)>>],
   [field |-> "a", method |-> "gt", args |-> <<Null>>]}

WhereCallsK ==
  {[field |-> "a", text |-> Tag("isnull"), value |-> Num(1)],
   [field |-> "a", text |-> Tag("like"), value |-> Num(1)]}

GivenItem == Item("a", Tag("gt"), Null)

GivenNode == Item("a", Tag("invalid"), Absent)

\* the builder grows by fewer than MaxNodes nodes
WithinK == Size(root') < Size(constructor(initial)) + MaxNodes /\ Len(frames') < MaxDepth

\* const builder = adapter.deserialize(filter), for the filters that convert
InitK ==
  /\ \E filter \in KendoFilters :
        LET r == deserialize(filter)
        IN /\ r.err = "ok"
           /\ initial = r.node
           /\ root = r.b.root
           /\ current = r.b.current
           /\ serialized = [kind |-> "deserialize", filter |-> filter]
  /\ frames = <<>>
  /\ exc = "none"
  /\ last = Idle
  /\ built = NotBuilt
  /\ added = <<>>
  /\ log = (<<>> :> [type |-> root.type, entries |-> Given(root.children)])
  /\ serializers = <<>>
  /\ deserializers = <<>>
  /\ calls = <<>>

NextK ==
  \/ \E c \in FluentCallsK : Fluent(c.field, c.method, c.args) /\ WithinK
  \/ \E c \in WhereCallsK : Where(c.field, c.text, c.value) /\ WithinK
  \/ AddCondition(GivenItem) /\ WithinK
  \/ Add(GivenNode) /\ WithinK
  \/ OrGroup /\ WithinK
  \/ CallbackReturn
  \/ Build
  \/ Forget

SpecK == InitK /\ [][NextK]_vars

(***************************************************************************)
(* The serializers.  The options of serialize are undefined (NoOptions) or *)
(* an object whose fieldMapping is undefined (NoMapping) or an object, the *)
(* sequence of its own [k, val] entries; reading a key of an object that   *)
(* is not its own gives what Object.prototype has under that key.          *)
(***************************************************************************)
NoOptions == [kind |-> "undefined"]
NoMapping == [kind |-> "undefined"]
Options(mapping) == [kind |-> "options", fieldMapping |-> mapping]
Mapping(entries) == [kind |-> "mapping", entries |-> entries]

\* the keys every object inherits, and the text of what they hold (a
\* function) when it is used as a key or a column name
ObjectPrototypeKeys == {"constructor", "toString"}

InheritedText(key) ==
  IF key = "constructor" THEN "function Object() { [native code] }"
  ELSE "function toString() { [native code] }"

\* the name the mapping has the key as its own
OwnKey(mapping, key) == \E i \in 1..Len(mapping.entries) : mapping.entries[i].k = key

OwnValue(mapping, key) ==
  mapping.entries[CHOOSE i \in 1..Len(mapping.entries) : mapping.entries[i].k = key].val

\* options.fieldMapping[fieldName]; "" when there is nothing to read
ReadMapping(mapping, key) ==
  IF OwnKey(mapping, key) THEN OwnValue(mapping, key)
  ELSE IF key \in ObjectPrototypeKeys THEN InheritedText(key)
  ELSE ""

\* mapFieldName, of both serializers: the value read when it is truthy
mapFieldName(fieldName, options) ==
  IF /\ options # NoOptions
     /\ options.fieldMapping # NoMapping
     /\ ReadMapping(options.fieldMapping, fieldName) # ""
  THEN ReadMapping(options.fieldMapping, fieldName)
  ELSE fieldName

\* item.value: undefined when the item has no value key
ValueOf(item) == IF item.value = Absent THEN Undef ELSE item.value

(***************************************************************************)
(* MikroOrmConditionAdapter.  A FilterQuery is {[field]: ...}, written     *)
(* Cond(field, ops) with ops the [k, val] entries of the object under the  *)
(* field (k = "" for the value itself, "$not.$like" for {$not: {$like}}),  *)
(* or {$and: [...]} / {$or: [...]}, written Query(type, subs).             *)
(***************************************************************************)
Cond(f, ops) == [kind |-> "cond", field |-> f, ops |-> ops, type |-> "", sub |-> <<>>]
Query(ty, subs) == [kind |-> "query", field |-> "", ops |-> <<>>, type |-> ty, sub |-> subs]

With(k, val) == <<[k |-> k, val |-> val]>>

Serialized(out) == [out |-> out, err |-> "ok"]
Unsupported == [out |-> Query("", <<>>), err |-> "Unsupported operator"]

\* convertItem
convertItem(item, options) ==
  LET field == mapFieldName(item.field, options)
      op == item.op
      value == ValueOf(item)
  IN CASE op = Tag("eq") -> Serialized(Cond(field, With("", value)))
       [] op \in {Tag("ne"), Tag("gt"), Tag("gte"), Tag("lt"), Tag("lte"), Tag("in"),
                  Tag("like"), Tag("ilike")} ->
            Serialized(Cond(field, With(op.name, value)))
       [] op \in {Tag("notin"), Tag("nin")} -> Serialized(Cond(field, With("nin", value)))
       [] op = Tag("notlike") -> Serialized(Cond(field, With("$not.$like", value)))
       [] op = Tag("between") ->
            Serialized(Cond(field, With("gte", ElemAt(value.elems, 1))
                                     \o With("lte", ElemAt(value.elems, 2))))
       [] op = Tag("notbetween") ->
            Serialized(Query("or", <<Cond(field, With("lt", ElemAt(value.elems, 1))),
                                     Cond(field, With("gt", ElemAt(value.elems, 2)))>>))
       [] op = Tag("isnull") -> Serialized(Cond(field, With("", Null)))
       [] op = Tag("notnull") -> Serialized(Cond(field, With("ne", Null)))
       [] OTHER -> Unsupported

RECURSIVE serializeMikroOrm(_, _)
\* serialize and convertGroup of MikroOrmConditionAdapter: the conditions
\* of a group in order, up to the first that throws; a group of one
\* condition gives the query of that condition
serializeMikroOrm(condition, options) ==
  IF IsGroup(condition)
  THEN LET each == [i \in 1..Len(condition.children) |->
                      serializeMikroOrm(condition.children[i], options)]
           thrown == {i \in 1..Len(each) : each[i].err # "ok"}
           convertedConditions == [i \in 1..Len(each) |-> each[i].out]
       IN IF thrown # {} THEN each[CHOOSE i \in thrown : \A j \in thrown : i <= j]
          ELSE IF Len(convertedConditions) = 1 THEN Serialized(convertedConditions[1])
          ELSE Serialized(Query(condition.type, convertedConditions))
  ELSE convertItem(condition, options)

(***************************************************************************)
(* KnexConditionAdapter.  serialize returns a function of a query builder; *)
(* what it does to the builder is the sequence of the calls it makes on    *)
(* it, a call that takes a callback holding the calls made in the callback. *)
(***************************************************************************)
QbCall(method, column, operator, value) ==
  [method |-> method, column |-> column, operator |-> operator, value |-> value,
   sub |-> <<>>]
QbNested(method, sub) ==
  [method |-> method, column |-> "", operator |-> "", value |-> Undef, sub |-> sub]

Applied(qbCalls) == [out |-> qbCalls, err |-> "ok"]
UnsupportedKnex == [out |-> <<>>, err |-> "Unsupported operator"]

\* applyItem (or = FALSE) and applyItemWithOr (or = TRUE)
applyItem(item, options, or) ==
  LET field == mapFieldName(item.field, options)
      op == item.op
      value == ValueOf(item)
      where == IF or THEN "orWhere" ELSE "where"
  IN CASE op = Tag("eq") -> Applied(<<QbCall(where, field, "=", value)>>)
       [] op = Tag("ne") -> Applied(<<QbCall(where, field, "<>", value)>>)
       [] op = Tag("gt") -> Applied(<<QbCall(where, field, ">", value)>>)
       [] op = Tag("gte") -> Applied(<<QbCall(where, field, ">=", value)>>)
       [] op = Tag("lt") -> Applied(<<QbCall(where, field, "<", value)>>)
       [] op = Tag("lte") -> Applied(<<QbCall(where, field, "<=", value)>>)
       [] op = Tag("in") ->
            Applied(<<QbCall(IF or THEN "orWhereIn" ELSE "whereIn", field, "", value)>>)
       [] op = Tag("notin") \/ (op = Tag("nin") /\ ~or) ->
            Applied(<<QbCall(IF or THEN "orWhereNotIn" ELSE "whereNotIn", field, "", value)>>)
       [] op = Tag("like") -> Applied(<<QbCall(where, field, "like", value)>>)
       [] op = Tag("notlike") ->
            Applied(<<QbCall(IF or THEN "orWhereNot" ELSE "whereNot", field, "like", value)>>)
       [] op = Tag("ilike") ->
            Applied(<<QbCall(IF or THEN "orWhereILike" ELSE "whereILike", field, "", value)>>)
       [] op = Tag("between") ->
            Applied(<<QbCall(IF or THEN "orWhereBetween" ELSE "whereBetween", field, "", value)>>)
       [] op = Tag("notbetween") ->
            Applied(<<QbCall(IF or THEN "orWhereNotBetween" ELSE "whereNotBetween",
                             field, "", value)>>)
       [] op = Tag("isnull") ->
            Applied(<<QbCall(IF or THEN "orWhereNull" ELSE "whereNull", field, "", Undef)>>)
       [] op = Tag("notnull") ->
            Applied(<<QbCall(IF or THEN "orWhereNotNull" ELSE "whereNotNull", field, "", Undef)>>)
       [] OTHER -> UnsupportedKnex

RECURSIVE applyGroup(_, _)
\* applyGroup: nothing for an empty group, the one condition of a group of
\* one applied directly, the conditions of an AND group applied in order
\* (a group in an andWhere callback), those of an OR group in a where
\* callback, the first with where and the others with orWhere
applyGroup(group, options) ==
  LET n == Len(group.children)
      each == [i \in 1..n |->
                 LET condition == group.children[i]
                     or == group.type = "or" /\ n > 1 /\ i > 1
                 IN IF IsGroup(condition)
                    THEN LET r == applyGroup(condition, options)
                         IN IF r.err # "ok" \/ n = 1 THEN r
                            ELSE Applied(<<QbNested(IF group.type = "and" THEN "andWhere"
                                                    ELSE IF or THEN "orWhere" ELSE "where",
                                                    r.out)>>)
                    ELSE applyItem(condition, options, or)]
      thrown == {i \in 1..n : each[i].err # "ok"}
      RECURSIVE Cat(_)
      Cat(i) == IF i = 0 THEN <<>> ELSE Cat(i - 1) \o each[i].out
  IN IF thrown # {} THEN each[CHOOSE i \in thrown : \A j \in thrown : i <= j]
     ELSE IF n <= 1 \/ group.type = "and" THEN Applied(Cat(n))
     ELSE Applied(<<QbNested("where", Cat(n))>>)

\* serialize of KnexConditionAdapter, applied to a query builder
serializeKnex(condition, options) ==
  IF IsGroup(condition) THEN applyGroup(condition, options)
  ELSE applyItem(condition, options, FALSE)

\* the inputs: conditions a build() returns, over three field names, one of
\* them a key every object inherits; no options, options without a
\* mapping, mappings of one and of two fields, a mapping to the empty name
SerializedFields == {"userId", "status", "constructor"}

SerializedItems ==
  {Item(f, Tag("eq"), Num(1)) : f \in SerializedFields}
    \cup {Item("userId", Tag(n), Str(1)) : n \in {"ne", "gt", "like", "notlike", "ilike"}}
    \cup {Item("status", Tag(n), Arr(<<Num(1), Num(2)>>)) :
            n \in {"in", "notin", "between", "notbetween"}}
    \cup {Item("userId", Tag("isnull"), Undef), Item("status", Tag("notnull"), Absent),
          Item("status", Tag("invalid"), Num(1))}

SerializedConditions ==
  SerializedItems
    \cup {Group(ty, <<>>) : ty \in {"and", "or"}}
    \cup {Group(ty, <<Item("userId", Tag("eq"), Num(1)), x>>) :
            ty \in {"and", "or"}, x \in SerializedItems}
    \cup {Group(ty, <<Item("status", Tag("gt"), Num(1)),
                      Group(tz, <<Item("userId", Tag("eq"), Num(1)), x>>)>>) :
            ty \in {"and", "or"}, tz \in {"and", "or"},
            x \in {Item(f, Tag("like"), Str(1)) : f \in SerializedFields}}

SerializeOptions ==
  {NoOptions, Options(NoMapping),
   Options(Mapping(<<[k |-> "userId", val |-> "user_id"]>>)),
   Options(Mapping(<<[k |-> "userId", val |-> "user_id"], [k |-> "status", val |-> "state"]>>)),
   Options(Mapping(<<[k |-> "status", val |-> ""]>>))}

\* adapter.serialize(condition, options), with what the same adapter gives
\* for the condition without options
Serialize(adapter, condition, options) ==
  /\ last = Idle
  /\ LET with == IF adapter = "knex" THEN serializeKnex(condition, options)
                 ELSE serializeMikroOrm(condition, options)
         plain == IF adapter = "knex" THEN serializeKnex(condition, NoOptions)
                  ELSE serializeMikroOrm(condition, NoOptions)
     IN /\ serialized' = [kind |-> adapter, condition |-> condition, options |-> options,
                          out |-> with.out, err |-> with.err,
                          plain |-> plain.out, plainErr |-> plain.err]
        /\ last' = [op |-> "serialize", err |-> with.err]
  /\ UNCHANGED <<builder, serializers, deserializers, calls>>

SerializeMikroOrm ==
  \E c \in SerializedConditions, o \in SerializeOptions : Serialize("mikroorm", c, o)

SerializeKnex ==
  \E c \in SerializedConditions, o \in SerializeOptions : Serialize("knex", c, o)

InitS == InitV

NextS ==
  \/ SerializeMikroOrm
  \/ SerializeKnex
  \/ Forget

SpecS == InitS /\ [][NextS]_vars

(***************************************************************************)
(* Properties.                                                             *)
(***************************************************************************)
RECURSIVE Collapsed(_)
\* a tree with every group of exactly one child replaced by that child
Collapsed(node) ==
  IF ~IsGroup(node) THEN node
  ELSE IF Len(node.children) = 1 THEN Collapsed(node.children[1])
  ELSE Group(node.type, [i \in 1..Len(node.children) |-> Collapsed(node.children[i])])

RECURSIVE HasSingleChildGroup(_)
HasSingleChildGroup(node) ==
  /\ IsGroup(node)
  /\ \/ Len(node.children) = 1
     \/ \E i \in 1..Len(node.children) : HasSingleChildGroup(node.children[i])

RECURSIVE GroupPaths(_)
\* the paths to the groups of a tree
GroupPaths(node) ==
  IF ~IsGroup(node) THEN {}
  ELSE {<<>>} \cup UNION {{<<i>> \o p : p \in GroupPaths(node.children[i])} :
                             i \in 1..Len(node.children)}

RECURSIVE LogTree(_)
\* the tree the calls describe: under every group the builder opened, the
\* nodes in the order of the calls that added them
LogTree(p) ==
  Group(log[p].type,
        [i \in 1..Len(log[p].entries) |->
           IF log[p].entries[i].opened THEN LogTree(Append(p, i))
           ELSE log[p].entries[i].node])

C2_BuildKeepsState ==
  [][last'.op = "build" =>
       /\ root' = root
       /\ current' = current
       /\ built # NotBuilt => Leaves(built') = Leaves(built) \o LeavesOfAll(added)
       /\ built # NotBuilt /\ added = <<>> => built' = built]_vars

\* a second build() after one more condition, on a tree that build() collapses
C2_Witness ==
  /\ last.op = "build"
  /\ built # root
  /\ Len(Leaves(built)) >= 2
  /\ added = <<>>

\* C3: the children of a group of the built tree are the nodes of the calls
\* made under it, in call order, a nested group at the place of the
\* andGroup/orGroup call that opened it
C3_CallOrder == last.op = "build" => built = Collapsed(LogTree(<<>>))

\* built: a leaf, then a group opened and closed, then another leaf
C3_Witness ==
  /\ last.op = "build"
  /\ Len(log[<<>>].entries) = 3
  /\ ~log[<<>>].entries[1].opened
  /\ log[<<>>].entries[2].opened
  /\ ~log[<<>>].entries[3].opened
  /\ log[<<>>].entries[1].node # log[<<>>].entries[3].node
  /\ Len(built.children) = 3

\* C4: a step that adds nodes appends them to the group of the innermost
\* andGroup/orGroup call in progress (the root when there is none) and to no
\* other group
C4_InnermostGroup ==
  [][root' # root =>
       \A p \in GroupPaths(root) :
          LET before == NodeAt(root, p).children
              after == NodeAt(root', p).children
          IN /\ Len(after) >= Len(before)
             /\ (Len(after) > Len(before)) <=> (p = Innermost)]_vars

\* a condition added inside the callback of a call inside a callback
C4_Witness ==
  /\ Len(frames) = 2
  /\ last.op = "fluent" /\ last.err = "ok"
  /\ Len(NodeAt(root, frames[2].path).children) = 1
  /\ Len(NodeAt(root, frames[1].path).children) = 1
  /\ Len(root.children) = 1

\* C5: the stack is the root followed by the groups of the calls in
\* progress, outermost first: every call that ended, by return or by an
\* Error, has popped its group, and an Error leaves the call as an Error
C5_StackPaired ==
  /\ Len(current) = Len(frames) + 1
  /\ current[1] = <<>>
  /\ \A i \in 1..Len(frames) : current[i + 1] = frames[i].path
  /\ frames = <<>> => current = << <<>> >>
  /\ last.op = "unwind" => last.err # "ok"

\* an Error has left the callbacks of two nested calls, the inner group
\* holding a condition
C5_Witness ==
  /\ last.op = "unwind"
  /\ frames = <<>>
  /\ current = << <<>> >>
  /\ Len(root.children) = 1 /\ IsGroup(root.children[1])
  /\ Len(root.children[1].children) = 1 /\ IsGroup(root.children[1].children[1])
  /\ Len(root.children[1].children[1].children) = 1


\* the accepted values of an operator
Accepted(name, value) ==
  CASE name \in {"eq", "ne"} -> value.t \in {"string", "number", "boolean", "date", "null"}
    [] name \in {"gt", "gte", "lt", "lte"} -> value.t \in {"string", "number", "date"}
    [] name \in {"like", "ilike", "notlike"} -> value.t = "string"
    [] name \in {"in", "notin"} ->
         /\ value.t = "array"
         /\ \A i \in 1..Len(value.elems) : value.elems[i].t \in {"string", "number"}
    [] name \in {"between", "notbetween"} ->
         /\ value.t = "array"
         /\ Len(value.elems) = 2
         /\ \A i \in 1..2 : value.elems[i].t \in {"string", "number", "date"}
    [] name \in {"isnull", "notnull"} -> value = Undef

\* the parameters of the FieldBuilder method of an operator
Arity(name) ==
  IF name \in {"between", "notbetween"} THEN 2
  ELSE IF name \in {"isnull", "notnull"} THEN 0 ELSE 1

\* the value a FieldBuilder method is called with: the argument, for
\* between/notBetween the two bounds [start, end], nothing when every
\* argument is left out or undefined
ValueOfArgs(name, args) ==
  IF \A i \in 1..Len(args) : args[i] = Undef THEN Undef
  ELSE IF name \in {"between", "notbetween"} THEN Arr(<<ElemAt(args, 1), ElemAt(args, 2)>>)
  ELSE args[1]

\* a where(field).<method>(...args) call with no more arguments than parameters
FluentCallOf(name) ==
  /\ last.op = "fluent"
  /\ MethodOpName(last.method) = name
  /\ Len(last.args) <= Arity(name)

\* C6 as amended: a FieldBuilder method succeeds exactly when its value
\* is in the domain of its operator; a missing value is rejected with
\* 'value is required' by every value-requiring operator but between and
\* notbetween, which reject a missing bound with their 'two values' error
C6_MethodDomain ==
  \A name \in OperatorNames :
     FluentCallOf(name) =>
       LET value == ValueOfArgs(name, last.args)
       IN /\ (last.err = "ok") <=> Accepted(name, value)
          /\ value = Undef /\ Arity(name) > 0 =>
               last.err = IF Arity(name) = 2
                          THEN "requires a tuple/array of two values"
                          ELSE "value is required"

\* C6 as stated: a missing value is rejected with 'value is required' by
\* every value-requiring operator
C6_MissingValueIsRequired ==
  \A name \in OperatorNames :
     FluentCallOf(name) =>
       LET value == ValueOfArgs(name, last.args)
       IN /\ (last.err = "ok") <=> Accepted(name, value)
          /\ value = Undef /\ Arity(name) > 0 => last.err = "value is required"

\* between() without its bounds was rejected
C6_Witness ==
  /\ FluentCallOf("between")
  /\ ValueOfArgs("between", last.args) = Undef
  /\ last.err = "requires a tuple/array of two values"
  /\ Leafless

\* C7: a where(field).<op>(value) or where(field, op, value) call that
\* throws leaves the root, the stack and the tree build() returns as they were
C7_FailedCallAppendsNothing ==
  [][last'.op \in {"fluent", "where"} /\ last'.err # "ok" =>
       /\ root' = root
       /\ current' = current
       /\ build(root').result = build(root).result]_vars

\* a where(field, op, value) call has thrown inside a callback
C7_Witness ==
  /\ last.op = "where" /\ last.err = "requires a string value"
  /\ Len(frames) = 1 /\ Len(current) = 2
  /\ exc = "thrown"
  /\ root = Group("and", <<Group("or", <<>>)>>)

\* where(field).<op>(value) for an operator of the closed set
FluentMethod(name) ==
  CASE name = "notlike" -> "notLike"
    [] name = "notin" -> "notIn"
    [] name = "notbetween" -> "notBetween"
    [] name = "isnull" -> "isNull"
    [] name = "notnull" -> "isNotNull"
    [] OTHER -> name

FluentArgs(name, value) ==
  IF name \in {"between", "notbetween"} THEN <<value.elems[1], value.elems[2]>>
  ELSE IF name \in {"isnull", "notnull"} THEN <<>>
  ELSE <<value>>

ValidTriple(text, value) ==
  /\ text \in {Tag(n) : n \in OperatorNames}
  /\ Accepted(text.name, value)

\* C8: for a valid (field, op, value), where(field, op, value) leaves the
\* builder as where(field).<op>(value) does: the leaf {field, op, value}
\* appended to the current group
C8_ShorthandAsFluent ==
  [][last'.op = "where" /\ ValidTriple(last'.text, last'.value) =>
       LET name == last'.text.name
           fluent == callMethod(B, last'.field, FluentMethod(name),
                                FluentArgs(name, last'.value))
       IN /\ last'.err = "ok"
          /\ fluent.err = "ok"
          /\ root' = fluent.b.root
          /\ current' = fluent.b.current
          /\ NodeAt(root', current[Len(current)]).children =
               Append(NodeAt(root, current[Len(current)]).children,
                      Item(last'.field, last'.text, last'.value))]_vars

\* where(field, '$notbetween', [date, number]) has appended its leaf
C8_Witness ==
  /\ last.op = "where" /\ last.err = "ok"
  /\ last.text = Tag("notbetween")
  /\ last.value = Arr(<<Date(1), Num(2)>>)
  /\ root.children = <<Item("a", Tag("notbetween"), Arr(<<Date(1), Num(2)>>))>>

NullityTags == {Tag("isnull"), Tag("notnull")}

\* where(field, op, value) or a descriptor entry {field: {op: value}} for
\* an operator of tags
CallWith(tags, value) ==
  \/ last.op = "where" /\ last.text \in tags /\ last.value = value
  \/ /\ last.op = "descriptor"
     /\ Len(last.descriptor) = 1
     /\ \E t \in tags : last.descriptor[1].val = Obj(<<[k |-> t, val |-> value]>>)

\* C9: a nullity operator that receives a value throws and appends nothing
C9_NullityRejectsValue ==
  \A value \in Values \ {Undef} :
     CallWith(NullityTags, value) => last.err # "ok" /\ Leafless

BetweenTags == {Tag("between"), Tag("notbetween")}

\* an explicit descriptor entry {field: {op, value}} for an operator of tags
ExplicitWith(tags, value) ==
  /\ last.op = "descriptor"
  /\ Len(last.descriptor) = 1
  /\ \E t \in tags :
        last.descriptor[1].val = Obj(<<[k |-> KeyOp, val |-> t], [k |-> KeyValue, val |-> value]>>)

\* C10: between/notbetween with an array that is not two strings, numbers
\* or dates throws and appends nothing, on every input path
C10_BetweenExactlyTwo ==
  \A value \in Arrays :
     /\ ~Accepted("between", value)
     /\ CallWith(BetweenTags, value) \/ ExplicitWith(BetweenTags, value)
     => last.err # "ok" /\ Leafless

\* the operator texts that name no operator of the closed set, in any casing
UnknownTexts == {Tag("invalid"), OpText(FALSE, "invalid", FALSE)}

\* C11: where(field, op, value) with an operator that is not in the closed
\* set throws and appends nothing, whatever the value
C11_UnknownOperatorRejected ==
  last.op = "where" /\ last.text \in UnknownTexts => last.err # "ok" /\ Leafless

\* an operator-keyed descriptor entry {field: {op: value}} for an operator
\* of tags
KeyedWith(tags, value) ==
  /\ last.op = "descriptor"
  /\ Len(last.descriptor) = 1
  /\ \E t \in tags : last.descriptor[1].val = Obj(<<[k |-> t, val |-> value]>>)

\* C12: a descriptor entry {field: {$invalid: v}} or
\* {field: {op: '$invalid', value: v}} throws and appends nothing
C12_UnknownDescriptorOperator ==
  \A value \in Values \ {Undef} :
     KeyedWith(UnknownTexts, value) \/ ExplicitWith(UnknownTexts, value)
     => last.err # "ok" /\ Leafless

\* the value a text of an operator is tried with: one the operator accepts
SampleValue(name) ==
  CASE name \in {"in", "notin"} -> Arr(<<Num(1), Str(1)>>)
    [] name \in {"between", "notbetween"} -> Arr(<<Date(1), Num(2)>>)
    [] name \in {"isnull", "notnull"} -> Undef
    [] OTHER -> Str(1)

\* C13: where(field, opText, value), opText an operator of the closed set in
\* any letter-casing, with or without '$', appends the leaf whose op is the
\* lower-case '$' tag of that operator
C13_CaseInsensitiveText ==
  \A name \in OperatorNames :
     /\ last.op = "where"
     /\ last.text.name = name
     /\ last.value = SampleValue(name)
     => /\ last.err = "ok"
        /\ Leaves(root) = <<Item(last.field, Tag(name), last.value)>>

\* the operator and the value a descriptor entry stands for: a simple value
\* for '$eq', an array for '$in', {$op: v} for (op, v), {op, value} for
\* (op, value)
EntryOp(val) ==
  IF val.t = "array" THEN Tag("in")
  ELSE IF val.t # "object" THEN Tag("eq")
  ELSE IF HasKey(val, KeyOp) THEN Get(val, KeyOp)
  ELSE val.elems[1].k

EntryValue(val) ==
  IF val.t # "object" THEN val
  ELSE IF HasKey(val, KeyOp) THEN Get(val, KeyValue)
  ELSE val.elems[1].val

\* an entry of one of the four forms whose operator accepts its value; an
\* explicit entry without a value is malformed
ValidEntry(val) ==
  /\ val.t = "object" =>
       \/ Len(val.elems) = 1 /\ val.elems[1].k \notin {KeyOp, KeyValue}
       \/ /\ Len(val.elems) = 2 /\ HasKey(val, KeyOp) /\ HasKey(val, KeyValue)
          /\ Get(val, KeyValue) # Undef
  /\ ValidTriple(EntryOp(val), EntryValue(val))

ValidDescriptor(descriptor) ==
  \A i \in 1..Len(descriptor) : ValidEntry(descriptor[i].val)

RECURSIVE WhereEach(_, _)
\* where(field, op, value) for every entry of a descriptor, in order
WhereEach(b, descriptor) ==
  IF descriptor = <<>> THEN Ok(b)
  ELSE LET e == Head(descriptor)
           r == whereField(b, e.field, EntryOp(e.val), EntryValue(e.val))
       IN IF r.err # "ok" THEN r ELSE WhereEach(r.b, Tail(descriptor))

\* C14: where(descriptor), every entry valid, leaves the builder as the
\* where(field, op, value) calls of its entries do, in the order of the
\* entries: one leaf {field, op, value} per entry appended to the current
\* group; create(descriptor) gives the builder create().where(descriptor) gives
C14_DescriptorAsWhereCalls ==
  [][last'.op = "descriptor" /\ ValidDescriptor(last'.descriptor) =>
       LET d == last'.descriptor
           each == WhereEach(B, d)
       IN /\ last'.err = "ok"
          /\ each.err = "ok"
          /\ root' = each.b.root
          /\ current' = each.b.current
          /\ NodeAt(root', current[Len(current)]).children =
               NodeAt(root, current[Len(current)]).children \o
                 [i \in 1..Len(d) |->
                    Item(d[i].field, EntryOp(d[i].val), EntryValue(d[i].val))]
          /\ B = NewBuilder => createDescriptor(d) = whereDescriptor(B, d)]_vars

\* where({a: 1, b: {$gt: 2}}) inside a callback has appended its two leaves
C14_Witness ==
  /\ last.op = "descriptor" /\ last.err = "ok"
  /\ last.descriptor = <<[field |-> "a", val |-> Num(1)],
                         [field |-> "b", val |-> Obj(<<[k |-> Tag("gt"), val |-> Num(2)]>>)]>>
  /\ Len(frames) = 1
  /\ NodeAt(root, frames[1].path).children =
       <<Item("a", Tag("eq"), Num(1)), Item("b", Tag("gt"), Num(2))>>

\* a malformed descriptor entry: {} or {op: ...} with no value
EmptyEntry(val) == val.t = "object" /\ val.elems = <<>>

NoValueEntry(val) == val.t = "object" /\ HasKey(val, KeyOp) /\ Get(val, KeyValue) = Undef

\* C15: where(descriptor) throws at an entry {op: ...} that has no value
\* (the key absent, or undefined) and at an entry {}: the leaves of the
\* entries before it are appended, none for the malformed entry
C15_MalformedEntryRejected ==
  [][last'.op = "descriptor" =>
       \A k \in 1..Len(last'.descriptor) :
          LET d == last'.descriptor
              val == d[k].val
          IN /\ EmptyEntry(val) \/ NoValueEntry(val)
             /\ ValidDescriptor(SubSeq(d, 1, k - 1))
             => /\ last'.err = IF EmptyEntry(val)
                               THEN "Empty object is not a valid condition"
                               ELSE "Missing 'value' property"
                /\ current' = current
                /\ NodeAt(root', current[Len(current)]).children =
                     NodeAt(root, current[Len(current)]).children \o
                       [i \in 1..(k - 1) |->
                          Item(d[i].field, EntryOp(d[i].val), EntryValue(d[i].val))]]_vars

\* where({a: {op: '$isnull'}}) has thrown and left the root empty
C15_Witness ==
  /\ last.op = "descriptor"
  /\ last.descriptor = <<[field |-> "a", val |-> Obj(<<[k |-> KeyOp, val |-> Tag("isnull")]>>)]>>
  /\ last.err = "Missing 'value' property"
  /\ root = Group("and", <<>>)

\* the group from(node) makes the root: the node itself when it is a group,
\* the AND group of the node alone when it is an item
InitialGroup ==
  IF initial = NoCondition THEN Group("and", <<>>)
  ELSE IF IsGroup(initial) THEN initial
  ELSE Group("and", <<initial>>)

\* the nodes of the calls made on the builder outside every callback
TopLevelAdded ==
  LET tree == LogTree(<<>>)
  IN SubSeq(tree.children, Len(InitialGroup.children) + 1, Len(tree.children))

\* C16 as amended: the conditions added after from(node) are appended to the
\* root, which is the supplied group with its own combinator, or the AND
\* group of the supplied item: they follow the children of the supplied
\* group and are combined by its combinator, OR for an OR group
C16_FromKeepsCombinator ==
  /\ root.type = InitialGroup.type
  /\ Len(root.children) >= Len(InitialGroup.children)
  /\ SubSeq(root.children, 1, Len(InitialGroup.children)) = InitialGroup.children
  /\ last.op = "build" =>
       built = Collapsed(Group(InitialGroup.type, InitialGroup.children \o TopLevelAdded))

\* C16 as stated: after from(g), g an OR group, the built tree is the AND
\* group of g (normalized) and the conditions added, none of them among the
\* children of g
C16_FromAndCombines ==
  /\ last.op = "build"
  /\ initial # NoCondition
  /\ TopLevelAdded # <<>>
  => built = Collapsed(Group("and", <<InitialGroup>> \o TopLevelAdded))

\* from({$or: [b is null]}), then where('a').eq(1), then build():
\* the OR group of both
C16_Witness ==
  /\ last.op = "build"
  /\ initial = Group("or", <<LeafB>>)
  /\ built = Group("or", <<LeafB, LeafA>>)

\* from(node).build()
FromBuild(node) == build(constructor(node)).result

\* C20: from(t).build() = t for every tree t that build() returns: an
\* item, an empty group, a group of two or more children
C20_FromBuildRoundTrip ==
  last.op = "build" =>
    /\ FromBuild(built) = built
    /\ unwrapSingleCondition(built).result = built

\* an OR group holding two items and an empty group was built
C20_Witness ==
  /\ last.op = "build"
  /\ built = Group("or", <<LeafA, LeafB, Group("and", <<>>)>>)
  /\ FromBuild(built) = built

RECURSIVE EmptyGroups(_)
\* the combinators of the zero-child groups of a tree, left to right
EmptyGroups(node) ==
  IF ~IsGroup(node) THEN <<>>
  ELSE IF node.children = <<>> THEN <<node.type>>
  ELSE LET RECURSIVE Cat(_)
           Cat(i) == IF i = 0 THEN <<>> ELSE Cat(i - 1) \o EmptyGroups(node.children[i])
       IN Cat(Len(node.children))

\* C19: every andGroup/orGroup call whose callback added nothing shows in
\* the built tree as a zero-child group of its combinator, at the place of
\* the call among the others; andGroup(() => {}).orGroup(() => {}) builds to
\* the AND group of an empty AND group and an empty OR group
C19_EmptyGroupKept ==
  last.op = "build" =>
    /\ EmptyGroups(built) = EmptyGroups(LogTree(<<>>))
    /\ LogTree(<<>>) = Group("and", <<Group("and", <<>>), Group("or", <<>>)>>)
         => built = Group("and", <<Group("and", <<>>), Group("or", <<>>)>>)

\* create().andGroup(() => {}).orGroup(() => {}).build()
C19_Witness ==
  /\ last.op = "build"
  /\ initial = NoCondition
  /\ Len(log[<<>>].entries) = 2
  /\ log[<<>>].entries[1].opened /\ log[<<>>].entries[2].opened
  /\ built = Group("and", <<Group("and", <<>>), Group("or", <<>>)>>)

RECURSIVE HoldsTheirValue(_)
HoldsTheirValue(obj) ==
  \/ "theirs" \in DOMAIN obj
  \/ obj.t = "array" /\ \E i \in 1..Len(obj.elems) : HoldsTheirValue(obj.elems[i])

RECURSIVE HoldsTheirs(_)
\* a tree refers to an object the caller holds
HoldsTheirs(node) ==
  \/ "theirs" \in DOMAIN node
  \/ IF IsGroup(node)
     THEN \E i \in 1..Len(node.children) : HoldsTheirs(node.children[i])
     ELSE HoldsTheirValue(node.value)

\* C17: no object handed to where, add, addCondition, create or from is an
\* object of the builder's tree: the builder's appends never reach the
\* caller's objects, and when the caller changes them afterwards the tree
\* and what build() returns stay as they were
C17_NoInputAliasing ==
  /\ [](~HoldsTheirs(root))
  /\ [][last'.op = "mutate" =>
          /\ root' = root
          /\ build(root').result = build(root).result]_vars

\* the caller has changed its objects after from(group) and a
\* where(field).in(array) with its array
C17_Witness ==
  /\ last.op = "mutate"
  /\ initial = TheirGroup
  /\ root = Group("or", <<Item("a", Tag("between"), Arr(<<Date(1), Num(2)>>)),
                          Item("b", Tag("isnull"), Undef),
                          Item("a", Tag("in"), Arr(<<Num(1), Str(1)>>))>>)

\* C18: the tree build() returns refers to no group, item, array or date
\* of the builder's tree nor of the caller, so when the caller changes a
\* returned tree at every depth the builder's tree and what build() returns
\* stay as they were
C18_NoOutputAliasing ==
  /\ [](last.op = "build" =>
          /\ SharedNodes(built) = {}
          /\ SharedValues(built) = {}
          /\ ~HoldsTheirs(built))
  /\ [][last'.op = "mutateBuilt" =>
          /\ root' = root
          /\ build(root').result = build(root).result]_vars

\* the caller has changed the tree returned after add(group): a group of
\* two items, one with an array holding a date
C18_Witness ==
  /\ last.op = "mutateBuilt"
  /\ initial = NoCondition
  /\ root = Group("and", <<Group("or", <<Item("a", Tag("between"), Arr(<<Date(1), Num(2)>>)),
                                         Item("b", Tag("isnull"), Undef)>>)>>)

\* the place of the group that was current when the call of frame i was made
ParentOf(i) == SubSeq(frames[i].path, 1, Len(frames[i].path) - 1)

\* C26 (as the code has it): andGroup/orGroup append the new, empty group of
\* their combinator to the end of the current group before the callback runs
\* and put it on the stack; while the callback runs the group that was
\* current holds the new group, with what the callback has appended so far,
\* and a build() made inside the callback returns it; the return of the
\* callback pops the stack and leaves the tree as it is
C26_GroupAppendedAtCall ==
  /\ [](\A i \in 1..Len(frames) :
          LET parent == NodeAt(root, ParentOf(i))
              place == frames[i].path[Len(frames[i].path)]
          IN /\ place <= Len(parent.children)
             /\ IsGroup(parent.children[place])
             /\ parent.children[place].type = frames[i].type
             /\ current[i + 1] = frames[i].path)
  /\ [][/\ last'.op \in {"andGroup", "orGroup"} =>
             /\ NodeAt(root', current[Len(current)]).children =
                  Append(NodeAt(root, current[Len(current)]).children,
                         Group(IF last'.op = "andGroup" THEN "and" ELSE "or", <<>>))
             /\ current' = Append(current, frames'[Len(frames')].path)
        /\ last'.op = "return" =>
             root' = root /\ current' = SubSeq(current, 1, Len(current) - 1)
        /\ last'.op = "build" /\ frames # <<>> => built' = Collapsed(root)]_vars

\* C26 (as stated): while the callback of a call runs, the group that was
\* current when the call was made does not hold the new group
C26_GroupAppendedAfterCallback ==
  \A i \in 1..Len(frames) :
     frames[i].path[Len(frames[i].path)] > Len(NodeAt(root, ParentOf(i)).children)

\* build() inside the callback of orGroup, after where('a').eq(1) at the
\* root, returns the root with the leaf and the new, still empty OR group
C26_Witness ==
  /\ last.op = "build"
  /\ Len(frames) = 1 /\ frames[1].type = "or"
  /\ root = Group("and", <<LeafA, Group("or", <<>>)>>)
  /\ built = root

RECURSIVE Extends(_, _)
\* the tree new is the tree old with nodes appended to the ends of groups:
\* every group of old is in its place with its combinator and its children,
\* in their order, first among its children; every item is as it was
Extends(old, new) ==
  IF IsGroup(old)
  THEN /\ IsGroup(new)
       /\ new.type = old.type
       /\ Len(new.children) >= Len(old.children)
       /\ \A i \in 1..Len(old.children) : Extends(old.children[i], new.children[i])
  ELSE new = old

C28_NoRollback ==
  /\ [](root = LogTree(<<>>))
  /\ [][/\ last'.op = "unwind" =>
             LET p == frames[Len(frames)].path
             IN /\ root' = root
                /\ IsGroup(NodeAt(root', p))
                /\ NodeAt(root', p).type = frames[Len(frames)].type
                /\ NodeAt(root', p).children = LogTree(p).children
        /\ last'.op = "build" => built' = Collapsed(LogTree(<<>>))]_vars

\* orGroup(b => { b.where('a').eq(1); b.where('b').isNull(); throw }) on
\* a new builder: the Error has left the callback, the OR group is the child
\* of the root and holds the two leaves
C28_Witness ==
  /\ last.op = "unwind"
  /\ frames = <<>> /\ current = << <<>> >>
  /\ initial = NoCondition
  /\ root = Group("and", <<Group("or", <<LeafA, LeafB>>)>>)

\* the children the group on top of the stack got in the step
Gained == Len(NodeAt(root', current[Len(current)]).children)
            - Len(NodeAt(root, current[Len(current)]).children)

\* C30: where(descriptor) that throws has thrown at one entry, the k-th,
\* which is not a valid entry: the leaves of the entries 1..k-1 are appended
\* to the current group, in order, and stay; no leaf of the k-th entry or of
\* an entry after it is appended; the stack is as it was
C30_DescriptorNotAtomic ==
  [][last'.op = "descriptor" /\ last'.err # "ok" =>
       LET d == last'.descriptor
           k == Gained + 1
       IN /\ k \in 1..Len(d)
          /\ ValidDescriptor(SubSeq(d, 1, k - 1))
          /\ ~ValidEntry(d[k].val)
          /\ handleEntry([root |-> root', current |-> current], d[k].field, d[k].val).err
               = last'.err
          /\ NodeAt(root', current[Len(current)]).children =
               NodeAt(root, current[Len(current)]).children \o
                 [i \in 1..(k - 1) |->
                    Item(d[i].field, EntryOp(d[i].val), EntryValue(d[i].val))]
          /\ current' = current]_vars

\* where({a: 1, b: {$like: 1}}) inside a callback has thrown at b and left
\* the leaf of a in the group
C30_Witness ==
  /\ last.op = "descriptor" /\ last.err # "ok"
  /\ last.descriptor = <<[field |-> "a", val |-> Num(1)],
                         [field |-> "b", val |-> Obj(<<[k |-> Tag("like"), val |-> Num(1)]>>)]>>
  /\ Len(frames) = 1
  /\ NodeAt(root, frames[1].path).children = <<Item("a", Tag("eq"), Num(1))>>

\* where({a: {$like: 1}, b: 1}) has thrown at a: no leaf of b
C30_WitnessFirst ==
  /\ last.op = "descriptor" /\ last.err # "ok"
  /\ Len(last.descriptor) = 2 /\ last.descriptor[2].val = Num(1)
  /\ root = Group("and", <<>>)

\* 'value' in item
HasValueKey(item) == item.value # Absent

\* C29: a leaf the builder made for '$isnull' or '$notnull' has no value
\* key, it is {field, op}; the leaf of every other operator has one
C29_NullityLeafHasNoValue ==
  \A i \in 1..Len(Leaves(root)) :
     LET leaf == Leaves(root)[i]
     IN HasValueKey(leaf) <=> leaf.op \notin NullityTags

\* the call registers an adapter of the kind under the type
Registers(call, kind, type) ==
  /\ call.op \in {"register", "registerPlugin"}
  /\ call.type = type
  /\ (IF kind = "serializer" THEN call.serializer ELSE call.deserializer) # NoAdapter

\* the call removes what is registered under the type
Removes(call, type) == call.op = "clear" \/ (call.op = "unregister" /\ call.type = type)

\* the calls that registered an adapter of the kind under the type and were
\* followed by no unregister(type) and no clear()
Standing(kind, type) ==
  {i \in 1..Len(calls) :
     /\ Registers(calls[i], kind, type)
     /\ \A j \in (i + 1)..Len(calls) : ~Removes(calls[j], type)}

Registered(kind, type) == Standing(kind, type) # {}

\* C23: after any calls of register, registerPlugin, unregister and clear,
\* hasSerializer(t) is true exactly when a serializer was registered under
\* t with no unregister(t) and no clear() after it, and hasDeserializer(t)
\* likewise for deserializers; a registration of one kind leaves the map of
\* the other kind as it was; getRegisteredTypes() holds every type that has
\* a serializer or a deserializer, once, and no other type
C23_TwoIndependentMaps ==
  /\ [](\A t \in AdapterTypes :
          /\ hasSerializer(R, t) <=> Registered("serializer", t)
          /\ hasDeserializer(R, t) <=> Registered("deserializer", t))
  /\ [](LET types == getRegisteredTypes(R)
        IN /\ \A i, j \in 1..Len(types) : types[i] = types[j] => i = j
           /\ {types[i] : i \in 1..Len(types)} =
                {t \in AdapterTypes :
                   Registered("serializer", t) \/ Registered("deserializer", t)})
  /\ [](/\ last.op = "hasSerializer" => last.result = Registered("serializer", last.type)
        /\ last.op = "hasDeserializer" => last.result = Registered("deserializer", last.type)
        /\ last.op = "getRegisteredTypes" => last.result = getRegisteredTypes(R))
  /\ [][last'.op \in {"register", "registerPlugin"} =>
          LET call == calls'[Len(calls')]
          IN /\ call.serializer = NoAdapter => serializers' = serializers
             /\ call.deserializer = NoAdapter => deserializers' = deserializers]_vars

\* register('kendo', s, d), register('knex', s) and then
\* register('kendo', undefined, d): hasSerializer('kendo') is asked and is
\* true, the two types are listed once each
C23_Witness ==
  /\ last.op = "hasSerializer" /\ last.type = "kendo" /\ last.result = TRUE
  /\ Len(calls) = 3
  /\ calls[3] = Call("register", "kendo", NoAdapter, "kendoAdapter")
  /\ getRegisteredTypes(R) = <<"kendo", "knex">>
  /\ ~hasDeserializer(R, "knex")

\* register, then unregister of the type: nothing is registered under it
C23_WitnessUnregistered ==
  /\ last.op = "hasSerializer" /\ last.type = "knex" /\ last.result = FALSE
  /\ Len(calls) = 2
  /\ Registers(calls[1], "serializer", "knex") /\ calls[2].op = "unregister"

\* the adapter of the kind the latest standing registration under the type
\* gave
LatestRegistered(kind, type) ==
  LET i == CHOOSE n \in Standing(kind, type) : \A m \in Standing(kind, type) : m <= n
  IN IF kind = "serializer" THEN calls[i].serializer ELSE calls[i].deserializer

\* C24: getSerializer(t) returns the serializer most recently registered
\* under t when hasSerializer(t) is true, and throws the Error
\* "Serializer 't' not registered" when it is false; getDeserializer(t)
\* likewise with hasDeserializer(t) and "Deserializer 't' not registered";
\* a lookup, failing or not, leaves the two maps as they were
C24_LookupOrFail ==
  /\ [](last.op = "getSerializer" =>
          IF hasSerializer(R, last.asked)
          THEN last.err = "ok" /\ last.result = LatestRegistered("serializer", last.asked)
          ELSE /\ last.err = "not registered"
               /\ last.kind = "Serializer" /\ last.type = last.asked)
  /\ [](last.op = "getDeserializer" =>
          IF hasDeserializer(R, last.asked)
          THEN last.err = "ok" /\ last.result = LatestRegistered("deserializer", last.asked)
          ELSE /\ last.err = "not registered"
               /\ last.kind = "Deserializer" /\ last.type = last.asked)
  /\ [][last'.op \in {"getSerializer", "getDeserializer"} =>
          serializers' = serializers /\ deserializers' = deserializers]_vars

\* register('knex', knexAdapter), then a plugin with another serializer
\* for 'knex': getSerializer('knex') returns the plugin's
C24_Witness ==
  /\ last.op = "getSerializer" /\ last.asked = "knex"
  /\ last.err = "ok" /\ last.result = "mikroOrmAdapter"
  /\ Len(calls) = 2
  /\ calls[1] = Call("register", "knex", "knexAdapter", NoAdapter)
  /\ calls[2].op = "registerPlugin"

\* register('knex', knexAdapter): getDeserializer('knex') throws
C24_WitnessMiss ==
  /\ last.op = "getDeserializer" /\ last.asked = "knex"
  /\ last.err = "not registered" /\ last.kind = "Deserializer" /\ last.type = "knex"
  /\ calls = <<Call("register", "knex", "knexAdapter", NoAdapter)>>
  /\ serializers = <<[key |-> "knex", val |-> "knexAdapter"]>>

\* the filter handed to deserialize, and what its conversion gives
TheFilter == serialized.filter

ConvertedFilter ==
  IF isCompositeFilter(TheFilter) THEN convertCompositeFilter(TheFilter).node
  ELSE convertSimpleFilter(TheFilter).node

\* C22 (as the code has it): the builder deserialize(filter) returns is
\* from(the converted filter): its root is the converted group with its
\* own combinator (the logic of a composite filter, OR for 'isnullorempty',
\* AND for 'isnotnullorempty'), or the AND group of the converted item; the
\* conditions added afterwards follow the converted conditions in that
\* root and are combined by its combinator: AND-combined after an item and
\* after an AND group, OR-combined after an OR group
C22_DeserializeKeepsLogic ==
  /\ initial = ConvertedFilter
  /\ IF isCompositeFilter(TheFilter) THEN root.type = TheFilter.logic
     ELSE root.type = (IF ToLower(TheFilter.operator).name = "isnullorempty"
                       THEN "or" ELSE "and")
  /\ root = Group(root.type,
                  (IF IsGroup(ConvertedFilter) THEN ConvertedFilter.children
                   ELSE <<ConvertedFilter>>) \o TopLevelAdded)
  /\ last.op = "build" => built = Collapsed(root)

\* C22 (as stated): after deserialize(filter) and a condition added, the
\* built tree is the AND group of the converted conditions and the new
\* condition, an OR group of the conversion kept as one child of it
C22_DeserializeAndCombines ==
  /\ last.op = "build"
  /\ TopLevelAdded # <<>>
  => built = Collapsed(Group("and",
                             (IF InitialGroup.type = "or" THEN <<InitialGroup>>
                              ELSE InitialGroup.children) \o TopLevelAdded))

\* deserialize({logic: 'or', filters: [a eq 's', b lt 1]}), then
\* where('a').eq(1) and build(): the OR group of the three
C22_Witness ==
  /\ last.op = "build"
  /\ isCompositeFilter(TheFilter) /\ TheFilter.logic = "or"
  /\ built = Group("or", <<Item("a", Tag("eq"), Str(1)), Item("b", Tag("lt"), Num(1)),
                           Item("a", Tag("eq"), Num(1))>>)

\* deserialize({field: 'b', operator: 'contains', value: 's'}), then
\* where('a').eq(1) and build(): the AND group of the two
C22_WitnessSimple ==
  /\ last.op = "build"
  /\ TheFilter = KendoItem("b", KendoOp("contains"), Str(1))
  /\ built = Group("and", <<Item("b", Tag("ilike"), Pattern(TRUE, Str(1), TRUE)),
                            Item("a", Tag("eq"), Num(1))>>)

\* an item of a closed-set operator with a value the operator accepts (no
\* value, the key missing or undefined, for a nullity operator)
ValidLeaf(leaf) ==
  /\ leaf.op \in {Tag(n) : n \in OperatorNames}
  /\ IF leaf.op \in NullityTags THEN leaf.value \in {Undef, Absent}
     ELSE Accepted(leaf.op.name, leaf.value)

\* C21: every item of a tree build() returns has an operator of the closed
\* set and a value its operator accepts, whatever made the item: a where
\* call, add, addCondition, from or the deserialize of an adapter
C21_BuiltItemsValid ==
  last.op = "build" =>
    \A i \in 1..Len(Leaves(built)) : ValidLeaf(Leaves(built)[i])

\* the items where calls appended are valid, those of failed and of
\* misread calls included: what breaks C21 is never a where call
C21_WhereItemsValid ==
  [][last'.op \in {"fluent", "where", "descriptor"} =>
       \A i \in 1..Len(Appended(B, [root |-> root', current |-> current])) :
          ValidLeaf(Appended(B, [root |-> root', current |-> current])[i])]_vars

\* the name a field is to be emitted under: the name the mapping gives it
\* when the field is a key of the mapping, the field itself otherwise
MappedName(field, options) ==
  IF options = NoOptions THEN field
  ELSE IF options.fieldMapping = NoMapping THEN field
  ELSE IF OwnKey(options.fieldMapping, field) THEN OwnValue(options.fieldMapping, field)
  ELSE field

RECURSIVE Renamed(_, _)
\* a FilterQuery with the field of every condition, at every depth, mapped
Renamed(query, options) ==
  IF query.kind = "cond" THEN [query EXCEPT !.field = MappedName(@, options)]
  ELSE [query EXCEPT !.sub = [i \in 1..Len(query.sub) |-> Renamed(query.sub[i], options)]]

RECURSIVE RenamedCalls(_, _)
\* the calls on a query builder with the column of every call, at every
\* depth, mapped
RenamedCalls(qbCalls, options) ==
  [i \in 1..Len(qbCalls) |->
     IF qbCalls[i].sub = <<>> /\ qbCalls[i].column # ""
     THEN [qbCalls[i] EXCEPT !.column = MappedName(@, options)]
     ELSE [qbCalls[i] EXCEPT !.sub = RenamedCalls(@, options)]]

\* C25: serialize(condition, options) gives what serialize(condition)
\* gives with the field of every leaf, at every depth, replaced by the name
\* options.fieldMapping has for it, the fields that are no key of the
\* mapping left as they are: same operators, values, combinators and order
C25_FieldMappingOnly ==
  serialized # NotSerialized =>
    /\ serialized.err = serialized.plainErr
    /\ serialized.out = IF serialized.kind = "knex"
                        THEN RenamedCalls(serialized.plain, serialized.options)
                        ELSE Renamed(serialized.plain, serialized.options)

RECURSIVE FieldsOf(_)
FieldsOf(condition) ==
  IF IsGroup(condition)
  THEN UNION {FieldsOf(condition.children[i]) : i \in 1..Len(condition.children)}
  ELSE {condition.field}

\* the same for the conditions whose fields are no key of Object.prototype
\* and the mappings that map to no empty name
C25_OrdinaryNames ==
  /\ serialized # NotSerialized
  /\ FieldsOf(serialized.condition) \cap ObjectPrototypeKeys = {}
  /\ serialized.options # Options(Mapping(<<[k |-> "status", val |-> ""]>>))
  => C25_FieldMappingOnly

====
